---- MODULE Spec2Model ----
(***************************************************************************)
(* Service-resilience core of the API gateway: CircuitBreaker,             *)
(* LoadBalancer, ServiceRegistry, HealthChecker and the order proxy, as    *)
(* implemented in                                                          *)
(*   src/src/services/CircuitBreaker.js                                    *)
(*   src/src/services/LoadBalancer.js   (first class body, lines 1-213)    *)
(*   src/src/services/ServiceRegistry.js                                   *)
(*   src/src/services/HealthChecker.js                                     *)
(*   src/src/routes/orderRoutes.js                                         *)
(*   src/src/utils/httpClient.js                                           *)
(*                                                                         *)
(* Time is the value of Date.now() in milliseconds; the process starts at  *)
(* a positive time, as Date.now() is never 0.  Every handler of the        *)
(* single-threaded event loop is one atomic action; an execute() call is   *)
(* split at its await into an admission step and a completion step.        *)
(* A rejection that travels through the catch blocks of call() and of      *)
(* HttpClient.request() takes one step per catch block, as each runs in a  *)
(* continuation of its own.                                                *)
(* The write-only observability fields of the breaker (totalRequests,      *)
(* lastSuccessTime, metrics, emitted events) are read by no transition     *)
(* and are not part of the state modelled here.                            *)
(***************************************************************************)
EXTENDS Integers, Sequences, FiniteSets, TLC

\* ------------------------------------------------------------------------
\* Bounds of the model
\* ------------------------------------------------------------------------
TimeStep == 15000
MaxTime == 75000
MaxFailureCount == 6
MaxSuccessCount == 2
MaxInFlight == 1
MaxConnections == 1
MaxProxied == 1
MaxRegistrations == 2
MaxProbes == 2
MaxStarts == 2
\* Calls that overlap on one breaker: a second call(fn) or request() may begin
\* while the first is still awaiting its operation.
MaxOverlap == 2

\* ------------------------------------------------------------------------
\* Program constants
\* ------------------------------------------------------------------------
FailureThreshold == 5
RecoveryTimeout == 30000
SuccessThreshold == 2

NullTime == -1

STATES == {"CLOSED", "OPEN", "HALF_OPEN"}

ignoredCodes == {"ENOTFOUND", "ECONNREFUSED", "ETIMEDOUT", "CIRCUIT_BREAKER_TIMEOUT"}

\* Static service configuration (key |-> config).
ServicesConfig ==
    [user  |-> [name |-> "user-service",  url |-> "http://localhost:3001", timeout |-> 30000,
                weight |-> 1],
     order |-> [name |-> "order-service", url |-> "http://localhost:3004", timeout |-> 30000,
                weight |-> 1]]

\* Keys registered at start-up, and the names callers may pass.
ServiceKeys == {"user"}
UnknownName == "unknown-service"
AllNames == ServiceKeys \cup {UnknownName}

\* Errors an operation, a proxy callback or a probe can produce:
\* code is error.code ("" when absent), status is error.response.status
\* (0 when the error has no response).
Errors ==
    { [code |-> "",                        status |-> 0],
      [code |-> "",                        status |-> 500],
      [code |-> "",                        status |-> 404],
      [code |-> "ECONNREFUSED",            status |-> 0],
      [code |-> "ENOTFOUND",               status |-> 0],
      [code |-> "ETIMEDOUT",               status |-> 0],
      [code |-> "CIRCUIT_BREAKER_TIMEOUT", status |-> 0] }

\* Errors the proxy layer reports through markServiceUnhealthy.
ProxyErrors ==
    { [code |-> "",             status |-> 0],
      [code |-> "",             status |-> 404],
      [code |-> "ECONNREFUSED", status |-> 0] }

TimeoutError == [code |-> "CIRCUIT_BREAKER_TIMEOUT", status |-> 0]

\* An Error built with new Error(message): no code, no response.
PlainError == [code |-> "", status |-> 0]

ForceInputs == STATES \cup {"BROKEN"}

VARIABLES
    now,               \* Date.now()
    services,          \* ServiceRegistry.services        (Map key -> Service)
    circuitBreakers,   \* ServiceRegistry.circuitBreakers (Map key -> breaker)
    currentIndices,    \* LoadBalancer.currentIndices     (Map service.name -> index)
    connectionCounts,  \* LoadBalancer.connectionCounts   (Map <<name, instance>> -> count)
    inFlight,          \* admitted execute() calls awaiting their operation (start times)
    lastEvent,         \* the call made in the last step and what it returned or threw
    trialSuccesses,    \* history: successes recorded on a breaker since it last entered HALF_OPEN
    metricsTimer,      \* CircuitBreaker.metricsTimer of the breaker held under each key
    activeTimers,      \* the setInterval timers of the process that have not been cleared
    timersCreated,     \* how many timers each owner (a key, or the health checker) has created
    isRunning,         \* HealthChecker.isRunning
    intervalId,        \* HealthChecker.intervalId (NullTimer when null)
    probes,            \* HealthChecker.checkServiceHealth calls awaiting fetch, per key
    registryProbes,    \* ServiceRegistry.checkServiceHealth calls awaiting fetch, per key
    proxied,           \* requests a proxy has forwarded and not yet heard back about, per key
    metrics,           \* CircuitBreaker.metrics of the breaker held under each key, kept
                       \* by the actions of MetricsSpec; elsewhere observability is left out
    failing,           \* HttpClient.request calls whose operation has failed and whose
                       \* catch blocks have not all run yet, per key
    staleProbes,       \* ServiceRegistry.checkServiceHealth calls awaiting fetch whose
                       \* Service record has since been replaced or removed, per key
    recentSelections   \* history: the latest results of roundRobin per service.name, at most
                       \* as many as the service had valid instances; `all` holds them
                       \* whatever happened in between, `sinceReset` those made since
                       \* the last resetStats()

auxVars == <<metricsTimer, activeTimers, timersCreated, isRunning, intervalId, probes,
             registryProbes, proxied, staleProbes, metrics, failing>>

vars == <<now, services, circuitBreakers, currentIndices, connectionCounts, inFlight,
          lastEvent, trialSuccesses, metricsTimer, activeTimers, timersCreated, isRunning,
          intervalId, probes, registryProbes, proxied, staleProbes, metrics, failing,
          recentSelections>>

Put(m, k, v) == [x \in (DOMAIN m) \cup {k} |-> IF x = k THEN v ELSE m[x]]

Event(op, name, result, detail) ==
    [op |-> op, name |-> name, result |-> result, detail |-> detail]

NoDetail == [none |-> TRUE]

\* ------------------------------------------------------------------------
\* CircuitBreaker
\* ------------------------------------------------------------------------
NewCircuitBreaker(timeout) ==
    [state |-> "CLOSED", failureCount |-> 0, successCount |-> 0,
     lastFailureTime |-> NullTime, nextAttemptTime |-> NullTime,
     timeout |-> timeout]

\* The truth value JavaScript gives a time field: null and 0 are falsy.
IsTruthyTime(time) == time # NullTime /\ time # 0

ShouldAttemptReset(b, t) ==
    /\ b.state = "OPEN"
    /\ IsTruthyTime(b.lastFailureTime)
    /\ (t - b.lastFailureTime) >= RecoveryTimeout

ShouldRecordFailure(error) ==
    IF error.status >= 400 /\ error.status < 500
    THEN FALSE
    ELSE error.code \notin ignoredCodes

RECURSIVE IsRequestAllowed(_, _)
RECURSIVE GetState(_, _)
RECURSIVE NotifyStateChange(_, _)
RECURSIVE HalfOpen(_, _)

\* Variant of isRequestAllowed that lacks the `return true` after halfOpen().
IsRequestAllowed_noReturnAfterHalfOpen(b, t) ==
    CASE b.state = "CLOSED" -> [allowed |-> TRUE, cb |-> b]
      [] b.state = "HALF_OPEN" -> [allowed |-> TRUE, cb |-> b]
      [] b.state = "OPEN" ->
            IF ShouldAttemptReset(b, t)
            THEN [allowed |-> FALSE, cb |-> HalfOpen(b, t)]
            ELSE [allowed |-> FALSE, cb |-> b]
      [] OTHER -> [allowed |-> FALSE, cb |-> b]

\* isRequestAllowed(): the answer and the breaker after the call.
IsRequestAllowed(b, t) ==
    CASE b.state = "CLOSED" -> [allowed |-> TRUE, cb |-> b]
      [] b.state = "HALF_OPEN" -> [allowed |-> TRUE, cb |-> b]
      [] b.state = "OPEN" ->
            IF ShouldAttemptReset(b, t)
            THEN [allowed |-> TRUE, cb |-> HalfOpen(b, t)]
            ELSE [allowed |-> FALSE, cb |-> b]
      [] OTHER -> [allowed |-> FALSE, cb |-> b]

\* getState() evaluates canMakeRequest: this.isRequestAllowed(); the
\* breaker after the call is the one left by that admission check.
GetState(b, t) == IsRequestAllowed(b, t).cb

\* notifyStateChange() builds stateData with getState(); the callbacks log.
NotifyStateChange(b, t) == GetState(b, t)

HalfOpen(b, t) ==
    LET b1 == [b EXCEPT !.state = "HALF_OPEN", !.successCount = 0]
    IN  GetState(NotifyStateChange(b1, t), t)

\* Variant of open() that keeps a deadline that is already set.
Open_keepsDeadline(b, t) ==
    LET b1 == [b EXCEPT !.state = "OPEN",
                        !.nextAttemptTime = IF @ = NullTime THEN t + RecoveryTimeout ELSE @]
    IN  GetState(NotifyStateChange(b1, t), t)

Open(b, t) ==
    LET b1 == [b EXCEPT !.state = "OPEN", !.nextAttemptTime = t + RecoveryTimeout]
    IN  GetState(NotifyStateChange(b1, t), t)

\* Variant of close() that leaves the failure counter as it is.
Close_keepsFailureCount(b, t) ==
    LET b1 == [b EXCEPT !.state = "CLOSED", !.successCount = 0,
                        !.lastFailureTime = NullTime, !.nextAttemptTime = NullTime]
    IN  GetState(NotifyStateChange(b1, t), t)

Close(b, t) ==
    LET b1 == [b EXCEPT !.state = "CLOSED", !.failureCount = 0, !.successCount = 0,
                        !.lastFailureTime = NullTime, !.nextAttemptTime = NullTime]
    IN  GetState(NotifyStateChange(b1, t), t)

OnSuccess(b, t) ==
    LET b1 == [b EXCEPT !.successCount = @ + 1]
    IN  IF b1.state = "HALF_OPEN"
        THEN IF b1.successCount >= SuccessThreshold THEN Close(b1, t) ELSE b1
        ELSE IF b1.state = "CLOSED"
             THEN [b1 EXCEPT !.failureCount = 0]
             ELSE b1

\* Variant of onFailure that opens only above the threshold.
OnFailure_offByOne(b, t) ==
    LET b1 == [b EXCEPT !.failureCount = @ + 1, !.lastFailureTime = t]
    IN  IF b1.state = "HALF_OPEN"
        THEN Open(b1, t)
        ELSE IF b1.state = "CLOSED" /\ b1.failureCount > FailureThreshold
             THEN Open(b1, t)
             ELSE b1

OnFailure(b, t) ==
    LET b1 == [b EXCEPT !.failureCount = @ + 1, !.lastFailureTime = t]
    IN  IF b1.state = "HALF_OPEN"
        THEN Open(b1, t)
        ELSE IF b1.state = "CLOSED" /\ b1.failureCount >= FailureThreshold
             THEN Open(b1, t)
             ELSE b1

RecordFailure(b, error, t) ==
    IF ShouldRecordFailure(error) THEN OnFailure(b, t) ELSE b

RecordSuccess(b, t) == OnSuccess(b, t)

\* forceState(newState) for a valid newState.
ForceState(b, newState, t) ==
    LET b1 == [b EXCEPT !.state = newState]
        b2 == IF newState = "CLOSED"
              THEN [b1 EXCEPT !.failureCount = 0, !.successCount = 0,
                              !.nextAttemptTime = NullTime]
              ELSE IF newState = "OPEN"
                   THEN [b1 EXCEPT !.nextAttemptTime = t + RecoveryTimeout]
                   ELSE b1
    IN  NotifyStateChange(b2, t)

\* The average response time is a JavaScript number that need not be whole:
\* it is held as the fraction num / den in lowest terms, den > 0 (a double is
\* that fraction rounded to 53 bits).
RECURSIVE Gcd(_, _)
Gcd(a, b) == IF b = 0 THEN a ELSE Gcd(b, a % b)

Fraction(num, den) ==
    LET g == Gcd(IF num < 0 THEN -num ELSE num, den)
    IN  [num |-> num \div g, den |-> den \div g]

\* this.metrics as the constructor and resetMetrics() set it at time t.
NewMetrics(t) ==
    [requests |-> 0, failures |-> 0, successes |-> 0, timeouts |-> 0, rejections |-> 0,
     averageResponseTime |-> Fraction(0, 1), lastResetTime |-> t]

\* updateAverageResponseTime(responseTime), called after metrics.successes++:
\* ((average * (successes - 1)) + responseTime) / successes, not rounded.
UpdateAverageResponseTime(m, responseTime) ==
    IF m.successes = 1
    THEN [m EXCEPT !.averageResponseTime = Fraction(responseTime, 1)]
    ELSE [m EXCEPT !.averageResponseTime =
             Fraction((@.num * (m.successes - 1)) + (responseTime * @.den),
                      @.den * m.successes)]

\* Variant of recordFailure that opens a CLOSED breaker on the failures of the
\* rolling window.
RecordFailureMetered_opensOnWindow(b, m, error, t) ==
    IF ShouldRecordFailure(error)
    THEN LET m1 == [m EXCEPT !.failures = @ + 1]
             b1 == [b EXCEPT !.failureCount = @ + 1, !.lastFailureTime = t]
         IN  [cb |-> IF b1.state = "HALF_OPEN"
                     THEN Open(b1, t)
                     ELSE IF b1.state = "CLOSED" /\ m1.failures >= FailureThreshold
                          THEN Open(b1, t)
                          ELSE b1,
              metrics |-> m1]
    ELSE [cb |-> b, metrics |-> m]

\* recordFailure(error) with the metrics it keeps: the breaker and its
\* metrics after the call.
RecordFailureMetered(b, m, error, t) ==
    IF ShouldRecordFailure(error)
    THEN [cb |-> OnFailure(b, t), metrics |-> [m EXCEPT !.failures = @ + 1]]
    ELSE [cb |-> b, metrics |-> m]

\* recordSuccess() with the metrics it keeps (onSuccess(0)).
RecordSuccessMetered(b, m, t) ==
    [cb |-> OnSuccess(b, t),
     metrics |-> UpdateAverageResponseTime([m EXCEPT !.successes = @ + 1], 0)]

\* Guards that keep the unbounded counters within the model's bounds.
CanFail(b) == b.failureCount < MaxFailureCount
CanSucceed(b) == b.successCount < MaxSuccessCount


\* ------------------------------------------------------------------------
\* LoadBalancer
\* ------------------------------------------------------------------------
Undefined == "undefined"

\* typeof instance === 'string' && instance.trim() && new URL(instance) succeeds
IsValidUrl(instance) == instance \notin {Undefined, "", " ", "not-a-url"}

FilterValid(instances) == SelectSeq(instances, IsValidUrl)

\* Variant of roundRobin that keeps one cursor for all services.
RoundRobin_sharedCursor(indices, name, instances) ==
    LET idx0 == IF "" \in DOMAIN indices THEN indices[""] ELSE 0
        selected == IF idx0 < Len(instances) THEN instances[idx0 + 1] ELSE Undefined
        nextIndex == (idx0 + 1) % Len(instances)
    IN  [instance |-> selected, indices |-> Put(Put(indices, name, nextIndex), "", nextIndex)]

\* roundRobin(service, instances): the selected instance and the new index map.
RoundRobin(indices, name, instances) ==
    LET idx0 == IF name \in DOMAIN indices THEN indices[name] ELSE 0
        selected == IF idx0 < Len(instances) THEN instances[idx0 + 1] ELSE Undefined
        nextIndex == (idx0 + 1) % Len(instances)
    IN  [instance |-> selected, indices |-> Put(indices, name, nextIndex)]

\* getNextInstance(service) with the default algorithm.
GetNextInstance(indices, service) ==
    LET healthyInstances == FilterValid(service.instances)
    IN  IF Len(service.instances) = 0 \/ Len(healthyInstances) = 0
        THEN [ok |-> FALSE, instance |-> Undefined, indices |-> indices]
        ELSE LET r == RoundRobin(indices, service.name, healthyInstances)
             IN  [ok |-> TRUE, instance |-> r.instance, indices |-> r.indices]

ConnectionCount(counts, key) == IF key \in DOMAIN counts THEN counts[key] ELSE 0

\* The initial minConnections of leastConnections (Infinity): above every count.
Infinity == -1

RECURSIVE LeastConnectionsFrom(_, _, _, _, _, _)
\* The forEach of leastConnections from position i on.
LeastConnectionsFrom(counts, name, instances, i, minConnections, selected) ==
    IF i > Len(instances)
    THEN selected
    ELSE LET connections == ConnectionCount(counts, <<name, instances[i]>>)
         IN  IF minConnections = Infinity \/ connections < minConnections
             THEN LeastConnectionsFrom(counts, name, instances, i + 1, connections, instances[i])
             ELSE LeastConnectionsFrom(counts, name, instances, i + 1, minConnections, selected)

\* Variant of the forEach of leastConnections that keeps the last minimal instance.
LeastConnections_lastMinimal(counts, name, instances) ==
    LET counted(i) == ConnectionCount(counts, <<name, instances[i]>>)
        least == {i \in 1..Len(instances) : \A j \in 1..Len(instances) : counted(i) <= counted(j)}
    IN  instances[CHOOSE i \in least : \A j \in least : j <= i]

\* leastConnections(service, instances)
LeastConnections(counts, name, instances) ==
    LeastConnectionsFrom(counts, name, instances, 1, Infinity, instances[1])

\* Math.random() is sampled at the points m / RandomDen, m in 0..RandomDen-1.
RandomDen == 6
RandomDraws == 0..(RandomDen - 1)

\* random(service, instances): instances[Math.floor(Math.random() * instances.length)]
Random(instances, m) == instances[((m * Len(instances)) \div RandomDen) + 1]

\* service.weight || 1
ServiceWeight(service) == IF service.weight = 0 THEN 1 ELSE service.weight

\* weighted(service, instances): the instance, the index map after the call
\* and the function that chose.
Weighted(indices, service, instances, m) ==
    LET serviceWeight == ServiceWeight(service)
        totalWeight == Len(instances) * serviceWeight
        \* random <= currentWeight after adding the weights of positions 1..i
        hit == {i \in 1..Len(instances) : m * totalWeight <= i * serviceWeight * RandomDen}
    IN  IF totalWeight = 0
        THEN LET r == RoundRobin(indices, service.name, instances)
             IN  [instance |-> r.instance, indices |-> r.indices, by |-> "roundRobin"]
        ELSE [instance |-> IF hit # {}
                           THEN instances[CHOOSE i \in hit : \A j \in hit : i <= j]
                           ELSE instances[1],
              indices |-> indices, by |-> "weighted"]

Algorithms == {"roundRobin", "leastConnections", "weighted", "random"}

\* Variant of getNextInstance that counts a connection on the instance that
\* leastConnections selects.
GetNextInstanceBy_countsSelection(indices, counts, service, algorithm, m) ==
    LET healthyInstances == FilterValid(service.instances)
    IN  IF Len(service.instances) = 0 \/ Len(healthyInstances) = 0
        THEN [ok |-> FALSE, instance |-> Undefined, indices |-> indices, counts |-> counts,
              by |-> "none"]
        ELSE CASE algorithm = "leastConnections" ->
                    LET i == LeastConnections(counts, service.name, healthyInstances)
                    IN  [ok |-> TRUE, instance |-> i, indices |-> indices,
                         counts |-> Put(counts, <<service.name, i>>,
                                        ConnectionCount(counts, <<service.name, i>>) + 1),
                         by |-> algorithm]
               [] algorithm = "weighted" ->
                    LET r == Weighted(indices, service, healthyInstances, m)
                    IN  [ok |-> TRUE, instance |-> r.instance, indices |-> r.indices,
                         counts |-> counts, by |-> r.by]
               [] algorithm = "random" ->
                    [ok |-> TRUE, instance |-> Random(healthyInstances, m),
                     indices |-> indices, counts |-> counts, by |-> algorithm]
               [] OTHER ->
                    LET r == RoundRobin(indices, service.name, healthyInstances)
                    IN  [ok |-> TRUE, instance |-> r.instance, indices |-> r.indices,
                         counts |-> counts, by |-> "roundRobin"]

\* getNextInstance(service, algorithm) where Math.random() returns m / RandomDen:
\* whether an instance was returned, the instance, the balancer's two maps
\* after the call and the function that chose.
GetNextInstanceBy(indices, counts, service, algorithm, m) ==
    LET healthyInstances == FilterValid(service.instances)
    IN  IF Len(service.instances) = 0 \/ Len(healthyInstances) = 0
        THEN [ok |-> FALSE, instance |-> Undefined, indices |-> indices, counts |-> counts,
              by |-> "none"]
        ELSE CASE algorithm = "leastConnections" ->
                    [ok |-> TRUE,
                     instance |-> LeastConnections(counts, service.name, healthyInstances),
                     indices |-> indices, counts |-> counts, by |-> algorithm]
               [] algorithm = "weighted" ->
                    LET r == Weighted(indices, service, healthyInstances, m)
                    IN  [ok |-> TRUE, instance |-> r.instance, indices |-> r.indices,
                         counts |-> counts, by |-> r.by]
               [] algorithm = "random" ->
                    [ok |-> TRUE, instance |-> Random(healthyInstances, m),
                     indices |-> indices, counts |-> counts, by |-> algorithm]
               [] OTHER ->
                    LET r == RoundRobin(indices, service.name, healthyInstances)
                    IN  [ok |-> TRUE, instance |-> r.instance, indices |-> r.indices,
                         counts |-> counts, by |-> "roundRobin"]

\* ------------------------------------------------------------------------
\* ServiceRegistry
\* ------------------------------------------------------------------------
NoError == [code |-> "none", status |-> -1]

\* registerService(name, config): { name, ...config, instances: [config.url], ... }
NewService(key, config) ==
    [name |-> config.name, url |-> config.url, instances |-> <<config.url>>,
     lastHealthCheck |-> NullTime, status |-> "unknown", failureCount |-> 0,
     lastError |-> NoError, weight |-> config.weight]

\* Variant of getServiceInstance that asks the load balancer before the breaker.
GetServiceInstance_balancerFirst(svcs, cbs, indices, serviceName, t) ==
    IF serviceName \notin DOMAIN svcs
    THEN [result |-> "ServiceNotFound", url |-> Undefined, cbs |-> cbs, indices |-> indices]
    ELSE LET service == svcs[serviceName]
             sel == GetNextInstance(indices, service)
             hasBreaker == serviceName \in DOMAIN cbs
             r == IF hasBreaker
                  THEN IsRequestAllowed(cbs[serviceName], t)
                  ELSE [allowed |-> TRUE, cb |-> NoDetail]
             cbs1 == IF hasBreaker THEN [cbs EXCEPT ![serviceName] = r.cb] ELSE cbs
         IN  IF ~r.allowed
             THEN [result |-> "CircuitOpen", url |-> Undefined,
                   cbs |-> cbs1, indices |-> sel.indices]
             ELSE IF sel.ok
                  THEN [result |-> "ok", url |-> sel.instance,
                        cbs |-> cbs1, indices |-> sel.indices]
                  ELSE [result |-> "ok", url |-> service.instances[1],
                        cbs |-> cbs1, indices |-> sel.indices]

\* Variant of getServiceInstance that creates a breaker for a name it does not know.
GetServiceInstance_createsBreaker(svcs, cbs, indices, serviceName, t) ==
    IF serviceName \notin DOMAIN svcs
    THEN [result |-> "ServiceNotFound", url |-> Undefined,
          cbs |-> Put(cbs, serviceName, NewCircuitBreaker(30000)), indices |-> indices]
    ELSE LET r == IsRequestAllowed(cbs[serviceName], t)
             cbs1 == [cbs EXCEPT ![serviceName] = r.cb]
             sel == GetNextInstance(indices, svcs[serviceName])
         IN  IF ~r.allowed
             THEN [result |-> "CircuitOpen", url |-> Undefined, cbs |-> cbs1, indices |-> indices]
             ELSE [result |-> "ok", url |-> sel.instance, cbs |-> cbs1, indices |-> sel.indices]

\* Variant of getServiceInstance that lets the load balancer's error through.
GetServiceInstance_noFallback(svcs, cbs, indices, serviceName, t) ==
    IF serviceName \notin DOMAIN svcs
    THEN [result |-> "ServiceNotFound", url |-> Undefined, cbs |-> cbs, indices |-> indices]
    ELSE LET r == IsRequestAllowed(cbs[serviceName], t)
             cbs1 == [cbs EXCEPT ![serviceName] = r.cb]
             sel == GetNextInstance(indices, svcs[serviceName])
         IN  IF ~r.allowed
             THEN [result |-> "CircuitOpen", url |-> Undefined, cbs |-> cbs1, indices |-> indices]
             ELSE IF sel.ok
                  THEN [result |-> "ok", url |-> sel.instance,
                        cbs |-> cbs1, indices |-> sel.indices]
                  ELSE [result |-> "NoAvailableInstances", url |-> Undefined,
                        cbs |-> cbs1, indices |-> sel.indices]

\* Variant of getServiceInstance that refuses a service marked unhealthy.
GetServiceInstance_refusesUnhealthy(svcs, cbs, indices, serviceName, t) ==
    IF serviceName \notin DOMAIN svcs
    THEN [result |-> "ServiceNotFound", url |-> Undefined, cbs |-> cbs, indices |-> indices]
    ELSE LET r == IsRequestAllowed(cbs[serviceName], t)
             cbs1 == [cbs EXCEPT ![serviceName] = r.cb]
             sel == GetNextInstance(indices, svcs[serviceName])
         IN  IF ~r.allowed \/ svcs[serviceName].status = "unhealthy"
             THEN [result |-> "CircuitOpen", url |-> Undefined, cbs |-> cbs1, indices |-> indices]
             ELSE [result |-> "ok", url |-> sel.instance, cbs |-> cbs1, indices |-> sel.indices]

\* getServiceInstance(serviceName): what it returns or throws, and the
\* breaker map and round-robin indices it leaves behind.
GetServiceInstance(svcs, cbs, indices, serviceName, t) ==
    IF serviceName \notin DOMAIN svcs
    THEN [result |-> "ServiceNotFound", url |-> Undefined, cbs |-> cbs, indices |-> indices]
    ELSE LET hasBreaker == serviceName \in DOMAIN cbs
             r == IF hasBreaker
                  THEN IsRequestAllowed(cbs[serviceName], t)
                  ELSE [allowed |-> TRUE, cb |-> NoDetail]
             cbs1 == IF hasBreaker THEN [cbs EXCEPT ![serviceName] = r.cb] ELSE cbs
             service == svcs[serviceName]
         IN  IF ~r.allowed
             THEN [result |-> "CircuitOpen", url |-> Undefined, cbs |-> cbs1, indices |-> indices]
             ELSE LET sel == GetNextInstance(indices, service)
                  IN  IF sel.ok
                      THEN [result |-> "ok", url |-> sel.instance,
                            cbs |-> cbs1, indices |-> sel.indices]
                      ELSE IF Len(service.instances) > 0
                           THEN [result |-> "ok", url |-> service.instances[1],
                                 cbs |-> cbs1, indices |-> sel.indices]
                           ELSE IF service.url \notin {Undefined, ""}
                                THEN [result |-> "ok", url |-> service.url,
                                      cbs |-> cbs1, indices |-> sel.indices]
                                ELSE [result |-> "NoAvailableInstances", url |-> Undefined,
                                      cbs |-> cbs1, indices |-> sel.indices]

\* The value getServiceInstance throws on each of its failing paths: a
\* new Error(message) whose only own property is the message, built from a
\* template around the service name. A record holds exactly the properties
\* the thrown object has.
GetServiceInstanceError(result, serviceName) ==
    IF result = "ServiceNotFound"
    THEN [message |-> <<"Servicio ", serviceName, " no encontrado">>]
    ELSE IF result = "CircuitOpen"
         THEN [message |-> <<"Servicio ", serviceName,
                             " temporalmente no disponible (Circuit Breaker abierto)">>]
         ELSE IF result = "NoAvailableInstances"
              THEN [message |-> <<"No hay instancias disponibles para ", serviceName, "">>]
              ELSE [none |-> TRUE]

\* ------------------------------------------------------------------------
\* Initial state: the registry after registerServices(config.services)
\* ------------------------------------------------------------------------
NullTimer == <<"none", 0>>

HealthCheckerOwner == "healthChecker"

\* A registry holding the Service records svcs and a new breaker per key,
\* next to a new LoadBalancer and a HealthChecker that has not been started.
InitOf(keys, config, svcs) ==
    /\ now = TimeStep
    /\ services = svcs
    /\ circuitBreakers = [k \in keys |-> NewCircuitBreaker(config[k].timeout)]
    /\ currentIndices = [n \in {} |-> 0]
    /\ connectionCounts = [c \in {} |-> 0]
    /\ recentSelections = [n \in {} |-> [all |-> <<>>, sinceReset |-> <<>>]]
    /\ inFlight = [k \in keys |-> <<>>]
    /\ lastEvent = Event("init", "", "ok", NoDetail)
    /\ trialSuccesses = [k \in keys |-> 0]
    /\ metricsTimer = [k \in keys |-> <<k, 1>>]
    /\ activeTimers = {<<k, 1>> : k \in keys}
    /\ timersCreated = [o \in keys \cup {HealthCheckerOwner} |->
                            IF o = HealthCheckerOwner THEN 0 ELSE 1]
    /\ isRunning = FALSE
    /\ intervalId = NullTimer
    /\ probes = [k \in keys |-> 0]
    /\ registryProbes = [k \in keys |-> 0]
    /\ proxied = [k \in keys |-> 0]
    /\ staleProbes = [k \in keys |-> 0]
    /\ failing = [k \in keys |-> <<>>]
    /\ metrics = [k \in keys |-> NewMetrics(TimeStep)]

InitWith(keys, config) == InitOf(keys, config, [k \in keys |-> NewService(k, config[k])])

Init == InitWith(ServiceKeys, ServicesConfig)

\* Values the USER_SERVICE_URL environment variable can give the user
\* service's url: unset (the default), or a string that is not a URL.
EnvUrls == {"http://localhost:3001", "not-a-url", " "}

\* The registry after registerServices when the environment chose the url.
ResolveInit ==
    \E u \in EnvUrls :
        InitWith(ServiceKeys, [ServicesConfig EXCEPT !.user.url = u])

\* ------------------------------------------------------------------------
\* Actions
\* ------------------------------------------------------------------------
lbVars == <<currentIndices, connectionCounts, recentSelections>>

\* The last n elements of a sequence.
LastN(seq, n) ==
    IF Len(seq) <= n THEN seq ELSE SubSeq(seq, Len(seq) - n + 1, Len(seq))

\* The history of round-robin results after roundRobin returned instance for
\* the service called name, which had n valid instances.
Selected(recent, name, instance, n) ==
    LET old == IF name \in DOMAIN recent THEN recent[name]
               ELSE [all |-> <<>>, sinceReset |-> <<>>]
    IN  Put(recent, name,
            [all |-> LastN(Append(old.all, instance), n),
             sinceReset |-> LastN(Append(old.sinceReset, instance), n)])

\* The history variable after a call on breaker k that leaves it as post:
\* reset when the breaker enters HALF_OPEN, incremented by a success
\* recorded while it is HALF_OPEN.
TrialAfter(k, post, entered, success) ==
    IF entered /\ post.state = "HALF_OPEN"
    THEN 0
    ELSE IF success /\ circuitBreakers[k].state = "HALF_OPEN"
         THEN trialSuccesses[k] + 1
         ELSE trialSuccesses[k]

SetBreaker(k, post, reentered, success) ==
    /\ circuitBreakers' = [circuitBreakers EXCEPT ![k] = post]
    /\ trialSuccesses' = [trialSuccesses EXCEPT ![k] =
          TrialAfter(k, post, reentered \/ circuitBreakers[k].state # "HALF_OPEN", success)]

\* The clock advances.
Tick ==
    /\ now + TimeStep <= MaxTime
    /\ now' = now + TimeStep
    /\ lastEvent' = Event("tick", "", "ok", NoDetail)
    /\ UNCHANGED <<services, circuitBreakers, lbVars, inFlight, trialSuccesses>>
    /\ UNCHANGED auxVars

\* circuitBreaker.isRequestAllowed() called directly (httpClient.js:53).
AdmissionCheck(k) ==
    /\ k \in DOMAIN circuitBreakers
    /\ LET r == IsRequestAllowed(circuitBreakers[k], now)
       IN  /\ SetBreaker(k, r.cb, FALSE, FALSE)
           /\ lastEvent' = Event("isRequestAllowed", k,
                                 IF r.allowed THEN "allowed" ELSE "denied",
                                 [prev |-> circuitBreakers[k].state])
    /\ UNCHANGED <<now, services, lbVars, inFlight>>
    /\ UNCHANGED auxVars

RemoveAt(seq, i) == [j \in 1..(Len(seq) - 1) |-> IF j < i THEN seq[j] ELSE seq[j + 1]]

\* call(fn) up to its await: the admission check; a denied call throws
\* CIRCUIT_BREAKER_OPEN, an admitted call invokes fn (executeWithTimeout).
\* limit bounds the calls that are awaiting their operation at one time (the
\* code has no such limit).
CallUpTo(k, limit) ==
    /\ k \in DOMAIN circuitBreakers
    /\ Len(inFlight[k]) < limit
    /\ LET r == IsRequestAllowed(circuitBreakers[k], now)
       IN  /\ SetBreaker(k, r.cb, FALSE, FALSE)
           /\ IF r.allowed
              THEN /\ inFlight' = [inFlight EXCEPT ![k] = Append(@, now)]
                   /\ lastEvent' = Event("execute", k, "admitted",
                                         [prev |-> circuitBreakers[k].state])
              ELSE /\ inFlight' = inFlight
                   /\ lastEvent' = Event("execute", k, "CircuitOpen",
                                         [circuitBreakerState |-> r.cb.state,
                                          nextAttemptTime |-> r.cb.nextAttemptTime])
    /\ UNCHANGED <<now, services, lbVars>>
    /\ UNCHANGED auxVars

\* call(fn) as the single-caller specifications bound it.
Call(k) ==
    /\ k \in DOMAIN circuitBreakers
    /\ CallUpTo(k, MaxInFlight)

\* call(fn) after its await: the operation resolved before the deadline.
CallSuccess(k, i) ==
    /\ k \in DOMAIN circuitBreakers
    /\ i \in 1..Len(inFlight[k])
    /\ now <= inFlight[k][i] + circuitBreakers[k].timeout
    /\ CanSucceed(circuitBreakers[k])
    /\ SetBreaker(k, OnSuccess(circuitBreakers[k], now), FALSE, TRUE)
    /\ inFlight' = [inFlight EXCEPT ![k] = RemoveAt(@, i)]
    /\ lastEvent' = Event("execute", k, "ok", [prev |-> circuitBreakers[k].state])
    /\ UNCHANGED <<now, services, lbVars>>
    /\ UNCHANGED auxVars

\* The catch block of call(fn): the error counts if shouldRecordFailure says so.
CallCatch(b, error, t) ==
    IF ShouldRecordFailure(error) THEN OnFailure(b, t) ELSE b

\* call(fn) after its await: the operation rejected with error before the deadline.
CallError(k, i, error) ==
    /\ k \in DOMAIN circuitBreakers
    /\ i \in 1..Len(inFlight[k])
    /\ now <= inFlight[k][i] + circuitBreakers[k].timeout
    /\ ShouldRecordFailure(error) => CanFail(circuitBreakers[k])
    /\ SetBreaker(k, CallCatch(circuitBreakers[k], error, now), FALSE, FALSE)
    /\ inFlight' = [inFlight EXCEPT ![k] = RemoveAt(@, i)]
    /\ lastEvent' = Event("execute", k, "OperationError",
                          [error |-> error, prev |-> circuitBreakers[k].state])
    /\ UNCHANGED <<now, services, lbVars>>
    /\ UNCHANGED auxVars

\* call(fn) after its await: the deadline expired first, executeWithTimeout
\* rejected with CIRCUIT_BREAKER_TIMEOUT.
CallTimeout(k, i) ==
    /\ k \in DOMAIN circuitBreakers
    /\ i \in 1..Len(inFlight[k])
    /\ now >= inFlight[k][i] + circuitBreakers[k].timeout
    /\ ShouldRecordFailure(TimeoutError) => CanFail(circuitBreakers[k])
    /\ SetBreaker(k, CallCatch(circuitBreakers[k], TimeoutError, now), FALSE, FALSE)
    /\ inFlight' = [inFlight EXCEPT ![k] = RemoveAt(@, i)]
    /\ lastEvent' = Event("execute", k, "CircuitTimeout",
                          [error |-> TimeoutError, prev |-> circuitBreakers[k].state])
    /\ UNCHANGED <<now, services, lbVars>>
    /\ UNCHANGED auxVars

\* circuitBreaker.recordFailure(error) called directly.
RecordFailureCall(k, error) ==
    /\ k \in DOMAIN circuitBreakers
    /\ ShouldRecordFailure(error) => CanFail(circuitBreakers[k])
    /\ SetBreaker(k, RecordFailure(circuitBreakers[k], error, now), FALSE, FALSE)
    /\ lastEvent' = Event("recordFailure", k, "ok",
                          [error |-> error, prev |-> circuitBreakers[k].state])
    /\ UNCHANGED <<now, services, lbVars, inFlight>>
    /\ UNCHANGED auxVars

\* circuitBreaker.recordSuccess() called directly.
RecordSuccessCall(k) ==
    /\ k \in DOMAIN circuitBreakers
    /\ CanSucceed(circuitBreakers[k])
    /\ SetBreaker(k, RecordSuccess(circuitBreakers[k], now), FALSE, TRUE)
    /\ lastEvent' = Event("recordSuccess", k, "ok", [prev |-> circuitBreakers[k].state])
    /\ UNCHANGED <<now, services, lbVars, inFlight>>
    /\ UNCHANGED auxVars

\* Variant of forceState that assigns the state before it validates it.
ForceStateCall_assignsBeforeValidating(k, newState) ==
    /\ k \in DOMAIN circuitBreakers
    /\ IF newState \in STATES
       THEN /\ SetBreaker(k, ForceState(circuitBreakers[k], newState, now),
                          newState = "OPEN", FALSE)
            /\ lastEvent' = Event("forceState", k, "ok",
                                  [newState |-> newState, prev |-> circuitBreakers[k].state,
                                   notified |-> TRUE])
       ELSE /\ circuitBreakers' = [circuitBreakers EXCEPT ![k].state = newState]
            /\ UNCHANGED trialSuccesses
            /\ lastEvent' = Event("forceState", k, "InvalidState",
                                  [newState |-> newState, prev |-> circuitBreakers[k].state,
                                   notified |-> FALSE])
    /\ UNCHANGED <<now, services, lbVars, inFlight>>
    /\ UNCHANGED auxVars

\* circuitBreaker.forceState(newState); notified tells whether the call
\* reached notifyStateChange.
ForceStateCall(k, newState) ==
    /\ k \in DOMAIN circuitBreakers
    /\ IF newState \in STATES
       THEN /\ SetBreaker(k, ForceState(circuitBreakers[k], newState, now),
                          newState = "OPEN", FALSE)
            /\ lastEvent' = Event("forceState", k, "ok",
                                  [newState |-> newState, prev |-> circuitBreakers[k].state,
                                   notified |-> TRUE])
       ELSE /\ UNCHANGED <<circuitBreakers, trialSuccesses>>
            /\ lastEvent' = Event("forceState", k, "InvalidState",
                                  [newState |-> newState, prev |-> circuitBreakers[k].state,
                                   notified |-> FALSE])
    /\ UNCHANGED <<now, services, lbVars, inFlight>>
    /\ UNCHANGED auxVars

\* The history variable after a registry call that leaves the breakers as cbs.
TrialAfterRegistry(cbs, n, success) ==
    [k \in DOMAIN trialSuccesses |->
        IF k = n /\ k \in DOMAIN cbs
        THEN TrialAfter(k, cbs[k], circuitBreakers[k].state # "HALF_OPEN", success)
        ELSE trialSuccesses[k]]

\* serviceRegistry.getServiceInstance(serviceName)
GetServiceInstanceCall(n) ==
    /\ n \in AllNames
    /\ LET r == GetServiceInstance(services, circuitBreakers, currentIndices, n, now)
       IN  /\ circuitBreakers' = r.cbs
           /\ currentIndices' = r.indices
           /\ trialSuccesses' = TrialAfterRegistry(r.cbs, n, FALSE)
           /\ recentSelections' =
                 IF n \in DOMAIN services /\ r.result = "ok"
                       /\ GetNextInstance(currentIndices, services[n]).ok
                 THEN Selected(recentSelections, services[n].name, r.url,
                               Len(FilterValid(services[n].instances)))
                 ELSE recentSelections
           /\ lastEvent' = Event("getServiceInstance", n, r.result,
                                 [url |-> r.url,
                                  error |-> GetServiceInstanceError(r.result, n)])
    /\ UNCHANGED <<now, services, connectionCounts, inFlight>>
    /\ UNCHANGED auxVars

\* Variant of markServiceUnhealthy that starts a record for a name it does not know.
MarkServiceUnhealthy_registersUnknown(n, error) ==
    /\ IF n \in DOMAIN services
       THEN /\ services[n].failureCount < MaxFailureCount
            /\ (n \in DOMAIN circuitBreakers /\ ShouldRecordFailure(error))
                  => CanFail(circuitBreakers[n])
            /\ services' = [services EXCEPT ![n] =
                  [@ EXCEPT !.status = "unhealthy", !.failureCount = @ + 1,
                            !.lastError = error, !.lastHealthCheck = now]]
            /\ circuitBreakers' = IF n \in DOMAIN circuitBreakers
                                  THEN [circuitBreakers EXCEPT ![n] = RecordFailure(@, error, now)]
                                  ELSE circuitBreakers
       ELSE /\ services' = Put(services, n,
                  [name |-> n, url |-> Undefined, instances |-> <<Undefined>>,
                   lastHealthCheck |-> now, status |-> "unhealthy", failureCount |-> 1,
                   lastError |-> error])
            /\ UNCHANGED circuitBreakers
    /\ trialSuccesses' = TrialAfterRegistry(circuitBreakers', n, FALSE)
    /\ lastEvent' = Event("markServiceUnhealthy", n, "ok", [error |-> error])
    /\ UNCHANGED <<now, lbVars, inFlight>>
    /\ UNCHANGED auxVars

\* serviceRegistry.markServiceUnhealthy(serviceName, error)
MarkServiceUnhealthy(n, error) ==
    /\ IF n \in DOMAIN services
       THEN /\ services[n].failureCount < MaxFailureCount
            /\ (n \in DOMAIN circuitBreakers /\ ShouldRecordFailure(error))
                  => CanFail(circuitBreakers[n])
            /\ services' = [services EXCEPT ![n] =
                  [@ EXCEPT !.status = "unhealthy", !.failureCount = @ + 1,
                            !.lastError = error, !.lastHealthCheck = now]]
            /\ circuitBreakers' = IF n \in DOMAIN circuitBreakers
                                  THEN [circuitBreakers EXCEPT ![n] = RecordFailure(@, error, now)]
                                  ELSE circuitBreakers
       ELSE UNCHANGED <<services, circuitBreakers>>
    /\ trialSuccesses' = TrialAfterRegistry(circuitBreakers', n, FALSE)
    /\ lastEvent' = Event("markServiceUnhealthy", n, "ok", [error |-> error])
    /\ UNCHANGED <<now, lbVars, inFlight>>
    /\ UNCHANGED auxVars

\* Variant of markServiceHealthy that leaves Service.failureCount as it is.
MarkServiceHealthy_keepsFailureCount(n) ==
    /\ IF n \in DOMAIN services
       THEN /\ n \in DOMAIN circuitBreakers => CanSucceed(circuitBreakers[n])
            /\ services' = [services EXCEPT ![n] =
                  [@ EXCEPT !.status = "healthy", !.lastHealthCheck = now]]
            /\ circuitBreakers' = IF n \in DOMAIN circuitBreakers
                                  THEN [circuitBreakers EXCEPT ![n] = RecordSuccess(@, now)]
                                  ELSE circuitBreakers
       ELSE UNCHANGED <<services, circuitBreakers>>
    /\ trialSuccesses' = TrialAfterRegistry(circuitBreakers', n, n \in DOMAIN services)
    /\ lastEvent' = Event("markServiceHealthy", n, "ok", NoDetail)
    /\ UNCHANGED <<now, lbVars, inFlight>>
    /\ UNCHANGED auxVars

\* serviceRegistry.markServiceHealthy(serviceName)
MarkServiceHealthy(n) ==
    /\ IF n \in DOMAIN services
       THEN /\ n \in DOMAIN circuitBreakers => CanSucceed(circuitBreakers[n])
            /\ services' = [services EXCEPT ![n] =
                  [@ EXCEPT !.status = "healthy", !.failureCount = 0,
                            !.lastHealthCheck = now]]
            /\ circuitBreakers' = IF n \in DOMAIN circuitBreakers
                                  THEN [circuitBreakers EXCEPT ![n] = RecordSuccess(@, now)]
                                  ELSE circuitBreakers
       ELSE UNCHANGED <<services, circuitBreakers>>
    /\ trialSuccesses' = TrialAfterRegistry(circuitBreakers', n, n \in DOMAIN services)
    /\ lastEvent' = Event("markServiceHealthy", n, "ok", NoDetail)
    /\ UNCHANGED <<now, lbVars, inFlight>>
    /\ UNCHANGED auxVars

\* loadBalancer.incrementConnections(serviceName, instance)
IncrementConnections(name, instance) ==
    /\ ConnectionCount(connectionCounts, <<name, instance>>) < MaxConnections
    /\ connectionCounts' = Put(connectionCounts, <<name, instance>>,
                               ConnectionCount(connectionCounts, <<name, instance>>) + 1)
    /\ lastEvent' = Event("incrementConnections", name, "ok", [instance |-> instance])
    /\ UNCHANGED <<now, services, circuitBreakers, currentIndices, recentSelections,
                   inFlight, trialSuccesses>>
    /\ UNCHANGED auxVars

Max(a, b) == IF a >= b THEN a ELSE b

\* loadBalancer.decrementConnections(serviceName, instance)
DecrementConnections(name, instance) ==
    /\ connectionCounts' = Put(connectionCounts, <<name, instance>>,
                               Max(0, ConnectionCount(connectionCounts, <<name, instance>>) - 1))
    /\ lastEvent' = Event("decrementConnections", name, "ok", [instance |-> instance])
    /\ UNCHANGED <<now, services, circuitBreakers, currentIndices, recentSelections,
                   inFlight, trialSuccesses>>
    /\ UNCHANGED auxVars

\* loadBalancer.resetStats(): both maps are cleared.
ResetStats ==
    /\ currentIndices' = [n \in {} |-> 0]
    /\ connectionCounts' = [c \in {} |-> 0]
    /\ recentSelections' = [n \in DOMAIN recentSelections |->
                                [recentSelections[n] EXCEPT !.sinceReset = <<>>]]
    /\ lastEvent' = Event("resetStats", "", "ok", NoDetail)
    /\ UNCHANGED <<now, services, circuitBreakers, inFlight, trialSuccesses>>
    /\ UNCHANGED auxVars

\* ------------------------------------------------------------------------
\* Registration and teardown
\* ------------------------------------------------------------------------
\* Keys registerService is called with.
LifecycleKeys == {"user", "order"}

Created(owner) == IF owner \in DOMAIN timersCreated THEN timersCreated[owner] ELSE 0

KeepOrZero(m, k) == IF k \in DOMAIN m THEN m ELSE Put(m, k, 0)

CountOf(m, k) == IF k \in DOMAIN m THEN m[k] ELSE 0

\* What a registration under key k replaces: the status of the Service and the
\* state of the breaker stored under k, or nothing.
Replaced(k) ==
    IF k \in DOMAIN services /\ k \in DOMAIN circuitBreakers
    THEN [status |-> services[k].status, state |-> circuitBreakers[k].state]
    ELSE [status |-> "none", state |-> "none"]

\* Variant of registerService that keeps a breaker already stored under the name.
RegisterService_keepsBreaker(k, config) ==
    LET timer == <<k, Created(k) + 1>>
    IN  /\ Created(k) < MaxRegistrations
        /\ services' = Put(services, k, NewService(k, config))
        /\ circuitBreakers' = IF k \in DOMAIN circuitBreakers
                              THEN circuitBreakers
                              ELSE Put(circuitBreakers, k, NewCircuitBreaker(config.timeout))
        /\ metricsTimer' = Put(metricsTimer, k, timer)
        /\ activeTimers' = activeTimers \cup {timer}
        /\ timersCreated' = Put(timersCreated, k, Created(k) + 1)
        /\ trialSuccesses' = Put(trialSuccesses, k, 0)
        /\ inFlight' = IF k \in DOMAIN inFlight THEN inFlight ELSE Put(inFlight, k, <<>>)
        /\ probes' = KeepOrZero(probes, k)
        /\ registryProbes' = Put(registryProbes, k, 0)
        /\ staleProbes' = Put(staleProbes, k, CountOf(staleProbes, k) + CountOf(registryProbes, k))
        /\ proxied' = KeepOrZero(proxied, k)
        /\ metrics' = Put(metrics, k, NewMetrics(now))
        /\ lastEvent' = Event("registerService", k, "ok",
                              [timer |-> timer, replaced |-> Replaced(k)])
        /\ UNCHANGED <<now, lbVars, isRunning, intervalId, failing>>

\* serviceRegistry.registerService(name, config): the Service and a new
\* CircuitBreaker are stored under name; the breaker's constructor starts its
\* metrics-reset timer.  A breaker already stored under name is replaced.
\* A checkServiceHealth call that awaits its fetch keeps the Service record
\* it read before: it becomes a stale probe.
RegisterService(k, config) ==
    LET timer == <<k, Created(k) + 1>>
    IN  /\ Created(k) < MaxRegistrations
        /\ services' = Put(services, k, NewService(k, config))
        /\ circuitBreakers' = Put(circuitBreakers, k, NewCircuitBreaker(config.timeout))
        /\ metricsTimer' = Put(metricsTimer, k, timer)
        /\ activeTimers' = activeTimers \cup {timer}
        /\ timersCreated' = Put(timersCreated, k, Created(k) + 1)
        /\ trialSuccesses' = Put(trialSuccesses, k, 0)
        /\ inFlight' = IF k \in DOMAIN inFlight THEN inFlight ELSE Put(inFlight, k, <<>>)
        /\ probes' = KeepOrZero(probes, k)
        /\ registryProbes' = Put(registryProbes, k, 0)
        /\ staleProbes' = Put(staleProbes, k, CountOf(staleProbes, k) + CountOf(registryProbes, k))
        /\ proxied' = KeepOrZero(proxied, k)
        /\ metrics' = Put(metrics, k, NewMetrics(now))
        /\ lastEvent' = Event("registerService", k, "ok",
                              [timer |-> timer, replaced |-> Replaced(k)])
        /\ UNCHANGED <<now, lbVars, isRunning, intervalId, failing>>

\* circuitBreaker.destroy() for every breaker in the map: the timers cleared.
DestroyedTimers == {metricsTimer[k] : k \in DOMAIN circuitBreakers}

\* Variant of destroy that clears the breakers and keeps the Service records.
Destroy_keepsServices ==
    /\ activeTimers' = activeTimers \ DestroyedTimers
    /\ circuitBreakers' = [k \in {} |-> NoDetail]
    /\ metricsTimer' = [k \in {} |-> NullTimer]
    /\ registryProbes' = [k \in DOMAIN registryProbes |-> 0]
    /\ staleProbes' = [k \in DOMAIN staleProbes |->
                           staleProbes[k] + CountOf(registryProbes, k)]
    /\ metrics' = [k \in {} |-> NewMetrics(0)]
    /\ lastEvent' = Event("destroy", "", "ok", [cleared |-> DestroyedTimers])
    /\ UNCHANGED <<now, services, lbVars, inFlight, trialSuccesses, timersCreated, isRunning,
                   intervalId, probes, proxied, failing>>

\* serviceRegistry.destroy(): every breaker in the map is destroyed, then both
\* maps are cleared.
Destroy ==
    /\ activeTimers' = activeTimers \ DestroyedTimers
    /\ circuitBreakers' = [k \in {} |-> NoDetail]
    /\ services' = [k \in {} |-> NoDetail]
    /\ metricsTimer' = [k \in {} |-> NullTimer]
    /\ registryProbes' = [k \in DOMAIN registryProbes |-> 0]
    /\ staleProbes' = [k \in DOMAIN staleProbes |->
                           staleProbes[k] + CountOf(registryProbes, k)]
    /\ metrics' = [k \in {} |-> NewMetrics(0)]
    /\ lastEvent' = Event("destroy", "", "ok", [cleared |-> DestroyedTimers])
    /\ UNCHANGED <<now, lbVars, inFlight, trialSuccesses, timersCreated, isRunning,
                   intervalId, probes, proxied, failing>>

\* ------------------------------------------------------------------------
\* HealthChecker
\* ------------------------------------------------------------------------
\* What a failed probe throws: the AbortError of the 10 s abort (a
\* DOMException, whose code is not a string of ignoredCodes), or an Error
\* without code or response (fetch failed, or new Error(`HTTP ${status}`)).
AbortError == [code |-> "ABORT_ERR", status |-> 0]
ProbeErrors == {AbortError, PlainError}

\* recordFailure() without argument: error = new Error('External failure').
ExternalFailure == PlainError

\* The setInterval timers of the health checker that have not been cleared.
HealthTimers(timers) == {t \in timers : t[1] = HealthCheckerOwner}

\* performHealthChecks() up to its await: checkServiceHealth(service) has
\* been called for every service of getAllServices() and awaits its fetch.
PerformHealthChecks(pr, svcs) ==
    [k \in DOMAIN pr |-> IF k \in DOMAIN svcs THEN pr[k] + 1 ELSE pr[k]]

CanProbe == \A k \in DOMAIN services : probes[k] < MaxProbes

\* Variant of startHealthChecks without the isRunning guard.
StartHealthChecks_noGuard ==
    LET timer == <<HealthCheckerOwner, Created(HealthCheckerOwner) + 1>>
    IN  /\ CanProbe
        /\ Created(HealthCheckerOwner) < MaxStarts + 1
        /\ isRunning' = TRUE
        /\ probes' = PerformHealthChecks(probes, services)
        /\ intervalId' = timer
        /\ activeTimers' = activeTimers \cup {timer}
        /\ timersCreated' = Put(timersCreated, HealthCheckerOwner, timer[2])
        /\ lastEvent' = Event("startHealthChecks", "",
                              IF isRunning THEN "alreadyRunning" ELSE "started",
                              [log |-> <<"performHealthChecks", "setInterval">>])
        /\ UNCHANGED <<now, failing, staleProbes, metrics, services, circuitBreakers, lbVars, inFlight, trialSuccesses,
                       metricsTimer, registryProbes, proxied>>

\* Variant of startHealthChecks that only schedules the timer.
StartHealthChecks_noImmediatePass ==
    IF isRunning
    THEN /\ lastEvent' = Event("startHealthChecks", "", "alreadyRunning", [log |-> <<>>])
         /\ UNCHANGED <<now, failing, staleProbes, metrics, services, circuitBreakers, lbVars, inFlight, trialSuccesses,
                        auxVars>>
    ELSE LET timer == <<HealthCheckerOwner, Created(HealthCheckerOwner) + 1>>
         IN  /\ Created(HealthCheckerOwner) < MaxStarts
             /\ isRunning' = TRUE
             /\ intervalId' = timer
             /\ activeTimers' = activeTimers \cup {timer}
             /\ timersCreated' = Put(timersCreated, HealthCheckerOwner, timer[2])
             /\ lastEvent' = Event("startHealthChecks", "", "started",
                                   [log |-> <<"setInterval">>])
             /\ UNCHANGED <<now, failing, staleProbes, metrics, services, circuitBreakers, lbVars, inFlight,
                            trialSuccesses, metricsTimer, probes, registryProbes, proxied>>

\* healthChecker.startHealthChecks(); log lists what the call did, in order.
StartHealthChecks ==
    IF isRunning
    THEN /\ lastEvent' = Event("startHealthChecks", "", "alreadyRunning", [log |-> <<>>])
         /\ UNCHANGED <<now, failing, staleProbes, metrics, services, circuitBreakers, lbVars, inFlight, trialSuccesses,
                        auxVars>>
    ELSE LET timer == <<HealthCheckerOwner, Created(HealthCheckerOwner) + 1>>
         IN  /\ CanProbe
             /\ Created(HealthCheckerOwner) < MaxStarts
             /\ isRunning' = TRUE
             /\ probes' = PerformHealthChecks(probes, services)
             /\ intervalId' = timer
             /\ activeTimers' = activeTimers \cup {timer}
             /\ timersCreated' = Put(timersCreated, HealthCheckerOwner, timer[2])
             /\ lastEvent' = Event("startHealthChecks", "", "started",
                                   [log |-> <<"performHealthChecks", "setInterval">>])
             /\ UNCHANGED <<now, failing, staleProbes, metrics, services, circuitBreakers, lbVars, inFlight,
                            trialSuccesses, metricsTimer, registryProbes, proxied>>

\* Variant of stopHealthChecks that leaves the interval scheduled.
StopHealthChecks_keepsTimer ==
    /\ isRunning' = FALSE
    /\ lastEvent' = Event("stopHealthChecks", "", "ok", NoDetail)
    /\ UNCHANGED <<now, failing, staleProbes, metrics, services, circuitBreakers, lbVars, inFlight,
                   trialSuccesses, metricsTimer, activeTimers, intervalId, timersCreated,
                   probes, registryProbes, proxied>>

\* healthChecker.stopHealthChecks()
StopHealthChecks ==
    /\ activeTimers' = IF intervalId # NullTimer THEN activeTimers \ {intervalId}
                                                 ELSE activeTimers
    /\ intervalId' = NullTimer
    /\ isRunning' = FALSE
    /\ lastEvent' = Event("stopHealthChecks", "", "ok", NoDetail)
    /\ UNCHANGED <<now, failing, staleProbes, metrics, services, circuitBreakers, lbVars, inFlight, trialSuccesses,
                   metricsTimer, timersCreated, probes, registryProbes, proxied>>

\* A live timer of the health checker fires: its callback calls
\* performHealthChecks(), which catches whatever the pass throws.
IntervalTick ==
    /\ HealthTimers(activeTimers) # {}
    /\ CanProbe
    /\ probes' = PerformHealthChecks(probes, services)
    /\ lastEvent' = Event("intervalTick", "", "ok", [running |-> isRunning])
    /\ UNCHANGED <<now, failing, staleProbes, metrics, services, circuitBreakers, lbVars, inFlight, trialSuccesses,
                   metricsTimer, activeTimers, timersCreated, isRunning, intervalId,
                   registryProbes, proxied>>

\* checkServiceHealth(service) after its await, response.ok: onServiceHealthy.
ProbeHealthy(k) ==
    /\ k \in DOMAIN services
    /\ probes[k] > 0
    /\ probes' = [probes EXCEPT ![k] = @ - 1]
    /\ services' = [services EXCEPT ![k] =
          [@ EXCEPT !.status = "healthy", !.lastHealthCheck = now, !.failureCount = 0]]
    /\ lastEvent' = Event("probe", k, "healthy", NoDetail)
    /\ UNCHANGED <<now, failing, staleProbes, metrics, circuitBreakers, lbVars, inFlight, trialSuccesses,
                   metricsTimer, activeTimers, timersCreated, isRunning, intervalId,
                   registryProbes, proxied>>

\* Variant of the failing probe in which one failure rejects the whole pass.
ProbeUnhealthy_abortsPass(k, error) ==
    /\ k \in DOMAIN services
    /\ probes[k] > 0
    /\ services[k].failureCount < MaxFailureCount
    /\ probes' = [j \in DOMAIN probes |-> 0]
    /\ services' = [services EXCEPT ![k] =
          [@ EXCEPT !.status = "unhealthy", !.lastHealthCheck = now,
                    !.failureCount = @ + 1, !.lastError = error]]
    /\ lastEvent' = Event("probe", k, "unhealthy", [error |-> error])
    /\ UNCHANGED <<now, failing, staleProbes, metrics, circuitBreakers, lbVars, inFlight, trialSuccesses,
                   metricsTimer, activeTimers, timersCreated, isRunning, intervalId,
                   registryProbes, proxied>>

\* checkServiceHealth(service) after its await, the response not ok or the
\* fetch rejected with error: onServiceUnhealthy, which looks the breaker up
\* under service.name.
ProbeUnhealthy(k, error) ==
    LET bk == services[k].name
    IN  /\ k \in DOMAIN services
        /\ probes[k] > 0
        /\ services[k].failureCount < MaxFailureCount
        /\ bk \in DOMAIN circuitBreakers => CanFail(circuitBreakers[bk])
        /\ probes' = [probes EXCEPT ![k] = @ - 1]
        /\ services' = [services EXCEPT ![k] =
              [@ EXCEPT !.status = "unhealthy", !.lastHealthCheck = now,
                        !.failureCount = @ + 1, !.lastError = error]]
        /\ circuitBreakers' = IF bk \in DOMAIN circuitBreakers
                              THEN [circuitBreakers EXCEPT ![bk] =
                                       RecordFailure(@, ExternalFailure, now)]
                              ELSE circuitBreakers
        /\ trialSuccesses' = TrialAfterRegistry(circuitBreakers', bk, FALSE)
        /\ lastEvent' = Event("probe", k, "unhealthy", [error |-> error])
        /\ UNCHANGED <<now, failing, staleProbes, metrics, lbVars, inFlight, metricsTimer, activeTimers, timersCreated,
                       isRunning, intervalId, registryProbes, proxied>>

\* ------------------------------------------------------------------------
\* ServiceRegistry.checkServiceHealth
\* ------------------------------------------------------------------------
\* checkServiceHealth(serviceName) up to its await: null for an unknown name,
\* otherwise the fetch of the health endpoint is started.
CheckServiceHealth(n) ==
    /\ IF n \in DOMAIN services
       THEN /\ registryProbes[n] < MaxProbes
            /\ registryProbes' = [registryProbes EXCEPT ![n] = @ + 1]
            /\ lastEvent' = Event("checkServiceHealth", n, "started", NoDetail)
       ELSE /\ UNCHANGED registryProbes
            /\ lastEvent' = Event("checkServiceHealth", n, "null", NoDetail)
    /\ UNCHANGED <<now, failing, staleProbes, metrics, services, circuitBreakers, lbVars, inFlight, trialSuccesses,
                   metricsTimer, activeTimers, timersCreated, isRunning, intervalId,
                   probes, proxied>>

\* checkServiceHealth after its await, response.ok.
CheckServiceHealthOk(n) ==
    /\ n \in DOMAIN services
    /\ registryProbes[n] > 0
    /\ n \in DOMAIN circuitBreakers => CanSucceed(circuitBreakers[n])
    /\ registryProbes' = [registryProbes EXCEPT ![n] = @ - 1]
    /\ services' = [services EXCEPT ![n] =
          [@ EXCEPT !.status = "healthy", !.lastHealthCheck = now, !.failureCount = 0]]
    /\ circuitBreakers' = IF n \in DOMAIN circuitBreakers
                          THEN [circuitBreakers EXCEPT ![n] = RecordSuccess(@, now)]
                          ELSE circuitBreakers
    /\ trialSuccesses' = TrialAfterRegistry(circuitBreakers', n, TRUE)
    /\ lastEvent' = Event("registryProbe", n, "healthy", NoDetail)
    /\ UNCHANGED <<now, failing, staleProbes, metrics, lbVars, inFlight, metricsTimer, activeTimers, timersCreated,
                   isRunning, intervalId, probes, proxied>>

\* checkServiceHealth after its await, a response that is not ok: the failure
\* is counted and handed to the breaker; lastError is not written.
CheckServiceHealthNotOk(n) ==
    /\ n \in DOMAIN services
    /\ registryProbes[n] > 0
    /\ services[n].failureCount < MaxFailureCount
    /\ n \in DOMAIN circuitBreakers => CanFail(circuitBreakers[n])
    /\ registryProbes' = [registryProbes EXCEPT ![n] = @ - 1]
    /\ services' = [services EXCEPT ![n] =
          [@ EXCEPT !.status = "unhealthy", !.lastHealthCheck = now,
                    !.failureCount = @ + 1]]
    /\ circuitBreakers' = IF n \in DOMAIN circuitBreakers
                          THEN [circuitBreakers EXCEPT ![n] = RecordFailure(@, PlainError, now)]
                          ELSE circuitBreakers
    /\ trialSuccesses' = TrialAfterRegistry(circuitBreakers', n, FALSE)
    /\ lastEvent' = Event("registryProbe", n, "unhealthy", [error |-> PlainError])
    /\ UNCHANGED <<now, failing, staleProbes, metrics, lbVars, inFlight, metricsTimer, activeTimers, timersCreated,
                   isRunning, intervalId, probes, proxied>>

\* checkServiceHealth after its await, the fetch rejected with error (abort
\* after 10 s, or a transport error): the catch block.
CheckServiceHealthError(n, error) ==
    /\ n \in DOMAIN services
    /\ registryProbes[n] > 0
    /\ services[n].failureCount < MaxFailureCount
    /\ (n \in DOMAIN circuitBreakers /\ ShouldRecordFailure(error))
          => CanFail(circuitBreakers[n])
    /\ registryProbes' = [registryProbes EXCEPT ![n] = @ - 1]
    /\ services' = [services EXCEPT ![n] =
          [@ EXCEPT !.status = "unhealthy", !.lastHealthCheck = now,
                    !.failureCount = @ + 1, !.lastError = error]]
    /\ circuitBreakers' = IF n \in DOMAIN circuitBreakers
                          THEN [circuitBreakers EXCEPT ![n] = RecordFailure(@, error, now)]
                          ELSE circuitBreakers
    /\ trialSuccesses' = TrialAfterRegistry(circuitBreakers', n, FALSE)
    /\ lastEvent' = Event("registryProbe", n, "unhealthy", [error |-> error])
    /\ UNCHANGED <<now, failing, staleProbes, metrics, lbVars, inFlight, metricsTimer, activeTimers, timersCreated,
                   isRunning, intervalId, probes, proxied>>

\* ------------------------------------------------------------------------
\* Order routes (routes/orderRoutes.js)
\* ------------------------------------------------------------------------
OrderService == "order"

\* Status codes a backend answers with.
ProxyStatuses == {200, 404, 500}

\* The registry after registerServices and setupOrderRoutes.
ProxyInit == InitWith({OrderService}, ServicesConfig)

\* markServiceUnhealthy on a registered service: the Service record after it.
ServiceMarkedUnhealthy(service, error, t) ==
    [service EXCEPT !.status = "unhealthy", !.failureCount = @ + 1,
                    !.lastError = error, !.lastHealthCheck = t]

\* markServiceHealthy on a registered service: the Service record after it.
ServiceMarkedHealthy(service, t) ==
    [service EXCEPT !.status = "healthy", !.failureCount = 0, !.lastHealthCheck = t]

\* The middleware built by createOrderProxy handles an inbound request: it
\* proxies to serviceUrl, the url read from the registry when the routes were
\* set up.
OrderProxyRequest ==
    /\ proxied[OrderService] < MaxProxied
    /\ proxied' = [proxied EXCEPT ![OrderService] = @ + 1]
    /\ lastEvent' = Event("proxy", OrderService, "forwarded",
                          [target |-> services[OrderService].url, resolved |-> FALSE])
    /\ UNCHANGED <<now, failing, staleProbes, metrics, services, circuitBreakers, lbVars, inFlight, trialSuccesses>>
    /\ UNCHANGED <<metricsTimer, activeTimers, timersCreated, isRunning, intervalId,
                   probes, registryProbes>>

\* onProxyRes of the order proxy: the backend answered with statusCode.
OrderOnProxyRes(statusCode) ==
    LET k == OrderService
        isSuccess == statusCode >= 200 /\ statusCode < 400
    IN  /\ proxied[k] > 0
        /\ proxied' = [proxied EXCEPT ![k] = @ - 1]
        /\ IF isSuccess
           THEN /\ CanSucceed(circuitBreakers[k])
                /\ services' = [services EXCEPT ![k] = ServiceMarkedHealthy(@, now)]
                /\ SetBreaker(k, RecordSuccess(circuitBreakers[k], now), FALSE, TRUE)
           ELSE IF statusCode >= 500
                THEN /\ services[k].failureCount < MaxFailureCount
                     /\ CanFail(circuitBreakers[k])
                     /\ services' = [services EXCEPT ![k] =
                                        ServiceMarkedUnhealthy(@, PlainError, now)]
                     /\ SetBreaker(k, RecordFailure(circuitBreakers[k], PlainError, now),
                                   FALSE, FALSE)
                ELSE UNCHANGED <<services, circuitBreakers, trialSuccesses>>
        /\ lastEvent' = Event("onProxyRes", k, "ok", [statusCode |-> statusCode])
        /\ UNCHANGED <<now, failing, staleProbes, metrics, lbVars, inFlight>>
        /\ UNCHANGED <<metricsTimer, activeTimers, timersCreated, isRunning, intervalId,
                       probes, registryProbes>>

\* onError of the order proxy: the request to the backend failed with err.
OrderOnError(err) ==
    LET k == OrderService
    IN  /\ proxied[k] > 0
        /\ proxied' = [proxied EXCEPT ![k] = @ - 1]
        /\ services[k].failureCount < MaxFailureCount
        /\ ShouldRecordFailure(err) => CanFail(circuitBreakers[k])
        /\ services' = [services EXCEPT ![k] = ServiceMarkedUnhealthy(@, err, now)]
        /\ SetBreaker(k, RecordFailure(circuitBreakers[k], err, now), FALSE, FALSE)
        /\ lastEvent' = Event("onError", k, "ok", [error |-> err])
        /\ UNCHANGED <<now, failing, staleProbes, metrics, lbVars, inFlight>>
        /\ UNCHANGED <<metricsTimer, activeTimers, timersCreated, isRunning, intervalId,
                       probes, registryProbes>>

\* ------------------------------------------------------------------------
\* Observability reads (ServiceRegistry.js)
\* ------------------------------------------------------------------------
\* The keys whose Service record carries name as its `name` field.
KeysNamed(svcs, name) == {k \in DOMAIN svcs : svcs[k].name = name}

\* The breakers after the first half of getServicesStatistics(): services.map
\* calls circuitBreakers.get(service.name)?.getState() for every Service.
StatisticsByName(svcs, cbs, t) ==
    [k \in DOMAIN cbs |-> IF KeysNamed(svcs, k) # {} THEN GetState(cbs[k], t) ELSE cbs[k]]

\* The breakers after getServicesStatistics(): after services.map,
\* circuitBreakers.map calls cb.getState() for every breaker.
StatisticsBreakers(svcs, cbs, t) ==
    LET byName == StatisticsByName(svcs, cbs, t)
    IN  [k \in DOMAIN cbs |-> GetState(byName[k], t)]

\* What getState() returns of a breaker b: the object literal reads
\* this.state before it evaluates canMakeRequest: this.isRequestAllowed(),
\* so the snapshot holds the state the breaker had before the call.
StateSnapshot(b, t) ==
    [state |-> b.state, canMakeRequest |-> IsRequestAllowed(b, t).allowed]

\* What getServicesStatistics() returns about the breakers: for every breaker
\* the snapshot of circuitBreakers.map, and for every Service the state in
\* its circuitBreakerState, which is undefined when no breaker is stored
\* under service.name. Of the Services that share a name the first one
\* mapped sees the breaker before any getState() call, the later ones after.
StatisticsResult(svcs, cbs, t) ==
    LET byName == StatisticsByName(svcs, cbs, t)
    IN  [circuitBreakers |-> [k \in DOMAIN cbs |-> StateSnapshot(byName[k], t)],
         circuitBreakerState |->
            [k \in DOMAIN svcs |->
                IF svcs[k].name \in DOMAIN cbs
                THEN [first |-> cbs[svcs[k].name].state,
                      later |-> byName[svcs[k].name].state]
                ELSE [first |-> Undefined, later |-> Undefined]]]

\* serviceRegistry.getAllServices()
GetAllServices ==
    /\ lastEvent' = Event("getAllServices", "", "ok",
                          [names |-> {services[k].name : k \in DOMAIN services}])
    /\ UNCHANGED <<now, services, circuitBreakers, lbVars, inFlight, trialSuccesses>>
    /\ UNCHANGED auxVars

\* serviceRegistry.getServicesStatistics()
GetServicesStatistics ==
    LET cbs == StatisticsBreakers(services, circuitBreakers, now)
    IN  /\ circuitBreakers' = cbs
        /\ trialSuccesses' = [k \in DOMAIN trialSuccesses |->
              IF k \in DOMAIN cbs
              THEN TrialAfter(k, cbs[k], circuitBreakers[k].state # "HALF_OPEN", FALSE)
              ELSE trialSuccesses[k]]
        /\ lastEvent' = Event("getServicesStatistics", "", "ok",
                              StatisticsResult(services, circuitBreakers, now))
        /\ UNCHANGED <<now, services, lbVars, inFlight>>
        /\ UNCHANGED auxVars

\* ------------------------------------------------------------------------
\* LoadBalancer calls
\* ------------------------------------------------------------------------
\* Services handed to the load balancer.
BalancerKeys == {"user", "order"}

\* Instance lists a service can carry: one to three URLs, a list with an entry
\* that is not a URL, a list without a usable entry and an empty list.
InstanceLists ==
    {<<"http://u1">>, <<"http://u1", "http://u2">>, <<"http://u1", "http://u2", "http://u3">>,
     <<"http://u1", "not-a-url", "http://u2">>, <<"not-a-url">>, <<>>}

OrderInstances == <<"http://o1", "http://o2">>

\* Values of the weight field of a service's configuration.
Weights == {0, 1}

\* The algorithm argument of getNextInstance; "fastest" is not an algorithm.
AlgorithmInputs == Algorithms \cup {"fastest"}

\* A load balancer in front of two services whose instance lists are fixed.
BalancerInit ==
    \E l \in InstanceLists : \E w \in Weights :
        InitOf(BalancerKeys, ServicesConfig,
               [k \in BalancerKeys |->
                   IF k = "user"
                   THEN [NewService(k, ServicesConfig[k]) EXCEPT !.instances = l, !.weight = w]
                   ELSE [NewService(k, ServicesConfig[k]) EXCEPT !.instances = OrderInstances]])

\* loadBalancer.getNextInstance(services[k], algorithm), Math.random() giving
\* m / RandomDen.
GetNextInstanceCall(k, algorithm, m) ==
    /\ k \in DOMAIN services
    /\ LET service == services[k]
           r == GetNextInstanceBy(currentIndices, connectionCounts, service, algorithm, m)
       IN  /\ currentIndices' = r.indices
           /\ connectionCounts' = r.counts
           /\ recentSelections' =
                 IF r.by = "roundRobin"
                 THEN Selected(recentSelections, service.name, r.instance,
                               Len(FilterValid(service.instances)))
                 ELSE recentSelections
           /\ lastEvent' = Event("getNextInstance", service.name,
                                 IF r.ok THEN "ok" ELSE "NoInstances",
                                 [algorithm |-> algorithm, by |-> r.by,
                                  instance |-> r.instance,
                                  instances |-> service.instances])
    /\ UNCHANGED <<now, services, circuitBreakers, inFlight, trialSuccesses>>
    /\ UNCHANGED auxVars

\* ------------------------------------------------------------------------
\* resetService and probes that outlive their Service record
\* ------------------------------------------------------------------------
\* serviceRegistry.resetService(serviceName)
ResetService(n) ==
    /\ IF n \in DOMAIN services
       THEN /\ services' = [services EXCEPT ![n] =
                  [@ EXCEPT !.status = "unknown", !.failureCount = 0,
                            !.lastError = NoError, !.lastHealthCheck = NullTime]]
            /\ circuitBreakers' =
                  IF n \in DOMAIN circuitBreakers
                  THEN [circuitBreakers EXCEPT ![n] = ForceState(@, "CLOSED", now)]
                  ELSE circuitBreakers
       ELSE UNCHANGED <<services, circuitBreakers>>
    /\ trialSuccesses' = TrialAfterRegistry(circuitBreakers', n, FALSE)
    /\ lastEvent' = Event("resetService", n, "ok", NoDetail)
    /\ UNCHANGED <<now, lbVars, inFlight>>
    /\ UNCHANGED auxVars

\* checkServiceHealth after its await, response.ok, when the Service record
\* it read is no longer the registered one: the record it writes to is out
\* of the map, and the success goes to the breaker now stored under the name.
StaleProbeOk(n) ==
    /\ CountOf(staleProbes, n) > 0
    /\ n \in DOMAIN circuitBreakers => CanSucceed(circuitBreakers[n])
    /\ staleProbes' = [staleProbes EXCEPT ![n] = @ - 1]
    /\ circuitBreakers' = IF n \in DOMAIN circuitBreakers
                          THEN [circuitBreakers EXCEPT ![n] = RecordSuccess(@, now)]
                          ELSE circuitBreakers
    /\ trialSuccesses' = TrialAfterRegistry(circuitBreakers', n, TRUE)
    /\ lastEvent' = Event("staleProbe", n, "healthy", NoDetail)
    /\ UNCHANGED <<now, services, lbVars, inFlight, metricsTimer, activeTimers, metrics,
                   timersCreated, isRunning, intervalId, probes, registryProbes, proxied,
                   failing>>

\* The same for a response that is not ok (PlainError) or a rejected fetch.
StaleProbeFailed(n, error) ==
    /\ CountOf(staleProbes, n) > 0
    /\ (n \in DOMAIN circuitBreakers /\ ShouldRecordFailure(error))
          => CanFail(circuitBreakers[n])
    /\ staleProbes' = [staleProbes EXCEPT ![n] = @ - 1]
    /\ circuitBreakers' = IF n \in DOMAIN circuitBreakers
                          THEN [circuitBreakers EXCEPT ![n] = RecordFailure(@, error, now)]
                          ELSE circuitBreakers
    /\ trialSuccesses' = TrialAfterRegistry(circuitBreakers', n, FALSE)
    /\ lastEvent' = Event("staleProbe", n, "unhealthy", [error |-> error])
    /\ UNCHANGED <<now, services, lbVars, inFlight, metricsTimer, activeTimers, metrics,
                   timersCreated, isRunning, intervalId, probes, registryProbes, proxied,
                   failing>>

\* ------------------------------------------------------------------------
\* Two breakers fed the same calls, and the metrics reset
\* ------------------------------------------------------------------------
\* The keys of two breakers that are fed the same calls.
TwinKeys == {"user", "order"}

\* The largest value a counter of the rolling window takes between two resets.
MaxWindow == 5

WindowOpen == \A k \in TwinKeys : metrics[k].failures < MaxWindow /\ metrics[k].successes < MaxWindow

\* The breakers, the history variable and the metrics after every breaker of
\* TwinKeys took the call whose result for key k is post[k].
SetTwins(post, success) ==
    /\ circuitBreakers' = [k \in DOMAIN circuitBreakers |->
                              IF k \in TwinKeys THEN post[k].cb ELSE circuitBreakers[k]]
    /\ metrics' = [k \in DOMAIN metrics |->
                      IF k \in TwinKeys THEN post[k].metrics ELSE metrics[k]]
    /\ trialSuccesses' = [k \in DOMAIN trialSuccesses |->
          IF k \in TwinKeys
          THEN TrialAfter(k, post[k].cb, circuitBreakers[k].state # "HALF_OPEN", success)
          ELSE trialSuccesses[k]]

\* The frame of the calls on the two breakers.
twinFrame == <<now, services, lbVars, inFlight, metricsTimer, activeTimers, timersCreated,
               isRunning, intervalId, probes, registryProbes, proxied, staleProbes, failing>>

\* recordFailure(error) on both breakers.
TwinRecordFailure(error) ==
    /\ WindowOpen
    /\ ShouldRecordFailure(error) => \A k \in TwinKeys : CanFail(circuitBreakers[k])
    /\ SetTwins([k \in TwinKeys |->
                    RecordFailureMetered(circuitBreakers[k], metrics[k], error, now)], FALSE)
    /\ lastEvent' = Event("recordFailure", "", "ok", [error |-> error])
    /\ UNCHANGED twinFrame

\* recordSuccess() on both breakers.
TwinRecordSuccess ==
    /\ WindowOpen
    /\ \A k \in TwinKeys : CanSucceed(circuitBreakers[k])
    /\ SetTwins([k \in TwinKeys |->
                    RecordSuccessMetered(circuitBreakers[k], metrics[k], now)], TRUE)
    /\ lastEvent' = Event("recordSuccess", "", "ok", NoDetail)
    /\ UNCHANGED twinFrame

\* isRequestAllowed() on both breakers.
TwinAdmissionCheck ==
    /\ SetTwins([k \in TwinKeys |->
                    [cb |-> IsRequestAllowed(circuitBreakers[k], now).cb,
                     metrics |-> metrics[k]]], FALSE)
    /\ lastEvent' = Event("isRequestAllowed", "",
                          IF \A k \in TwinKeys : IsRequestAllowed(circuitBreakers[k], now).allowed
                          THEN "allowed" ELSE "denied", NoDetail)
    /\ UNCHANGED twinFrame

\* resetMetrics() of the breaker under key k, as its metricsTimer calls it.
ResetMetrics(k) ==
    /\ k \in DOMAIN circuitBreakers
    /\ metricsTimer[k] \in activeTimers
    /\ metrics' = [metrics EXCEPT ![k] = NewMetrics(now)]
    /\ lastEvent' = Event("resetMetrics", k, "ok", [oldMetrics |-> metrics[k]])
    /\ UNCHANGED <<circuitBreakers, trialSuccesses, twinFrame>>

\* ------------------------------------------------------------------------
\* HttpClient (utils/httpClient.js)
\* ------------------------------------------------------------------------
\* The error call() throws when its admission check denies.
CircuitBreakerOpenError == [code |-> "CIRCUIT_BREAKER_OPEN", status |-> 0]

\* A request() whose operation has failed. `at` names the catch block that
\* runs next: "call" while the rejection of the operation waits for the catch
\* block of call(), "request" once call() has rethrown and the rejection
\* waits for the catch block of request(). error is the value thrown;
\* counted is history: how often this failure has been counted on the
\* breaker so far.
Failing(at, error, counted) == [at |-> at, error |-> error, counted |-> counted]

FailingOf(k) == IF k \in DOMAIN failing THEN failing[k] ELSE <<>>

\* The request() calls under key k that have not settled.
Outstanding(k) == Len(inFlight[k]) + Len(FailingOf(k))

\* Every auxiliary variable but failing.
clientFrame == <<metricsTimer, activeTimers, timersCreated, isRunning, intervalId, probes,
                 registryProbes, proxied, staleProbes, metrics>>

\* request(serviceName, options) up to its await: the lookup, the admission
\* check of request(), the admission check of call(), and the synchronous
\* start of the operation, which asks getServiceInstance for the base url
\* and hands the request to axios. A throw inside the async operation, like
\* the throw of call() itself, rejects a promise: the catch blocks run in
\* later steps.
HttpRequest(n) ==
    /\ n \in AllNames
    /\ IF n \notin DOMAIN services
       THEN /\ lastEvent' = Event("request", n, "ServiceNotFound", NoDetail)
            /\ UNCHANGED <<services, circuitBreakers, lbVars, inFlight, trialSuccesses,
                           failing>>
       ELSE LET r1 == IsRequestAllowed(circuitBreakers[n], now)
                r2 == IsRequestAllowed(r1.cb, now)
                cbs2 == [circuitBreakers EXCEPT ![n] = r2.cb]
                r3 == GetServiceInstance(services, cbs2, currentIndices, n, now)
            IN  IF ~r1.allowed
                THEN /\ circuitBreakers' = [circuitBreakers EXCEPT ![n] = r1.cb]
                     /\ trialSuccesses' = TrialAfterRegistry(circuitBreakers', n, FALSE)
                     /\ lastEvent' = Event("request", n, "CircuitOpen", NoDetail)
                     /\ UNCHANGED <<services, lbVars, inFlight, failing>>
                ELSE IF ~r2.allowed
                THEN /\ Outstanding(n) < MaxOverlap
                     /\ circuitBreakers' = cbs2
                     /\ trialSuccesses' = TrialAfterRegistry(circuitBreakers', n, FALSE)
                     /\ failing' = Put(failing, n,
                           Append(FailingOf(n), Failing("request", CircuitBreakerOpenError, 0)))
                     /\ lastEvent' = Event("request", n, "rejecting",
                                           [error |-> CircuitBreakerOpenError])
                     /\ UNCHANGED <<services, lbVars, inFlight>>
                ELSE IF r3.result = "ok"
                THEN /\ Outstanding(n) < MaxOverlap
                     /\ circuitBreakers' = r3.cbs
                     /\ currentIndices' = r3.indices
                     /\ recentSelections' =
                           IF GetNextInstance(currentIndices, services[n]).ok
                           THEN Selected(recentSelections, services[n].name, r3.url,
                                         Len(FilterValid(services[n].instances)))
                           ELSE recentSelections
                     /\ inFlight' = [inFlight EXCEPT ![n] = Append(@, now)]
                     /\ trialSuccesses' = TrialAfterRegistry(circuitBreakers', n, FALSE)
                     /\ lastEvent' = Event("request", n, "sent", [url |-> r3.url])
                     /\ UNCHANGED <<services, connectionCounts, failing>>
                ELSE /\ Outstanding(n) < MaxOverlap
                     /\ circuitBreakers' = r3.cbs
                     /\ currentIndices' = r3.indices
                     /\ trialSuccesses' = TrialAfterRegistry(circuitBreakers', n, FALSE)
                     /\ failing' = Put(failing, n,
                           Append(FailingOf(n), Failing("call", PlainError, 0)))
                     /\ lastEvent' = Event("request", n, "rejecting", [error |-> PlainError])
                     /\ UNCHANGED <<services, connectionCounts, recentSelections, inFlight>>
    /\ UNCHANGED now
    /\ UNCHANGED clientFrame

\* request() after its await: axios resolved before the deadline of call();
\* call() records the success, and request() returns response.data.
HttpRequestResolved(n, i) ==
    /\ n \in DOMAIN services /\ n \in DOMAIN circuitBreakers
    /\ i \in 1..Len(inFlight[n])
    /\ now <= inFlight[n][i] + circuitBreakers[n].timeout
    /\ CanSucceed(circuitBreakers[n])
    /\ circuitBreakers' = [circuitBreakers EXCEPT ![n] = OnSuccess(@, now)]
    /\ trialSuccesses' = TrialAfterRegistry(circuitBreakers', n, TRUE)
    /\ inFlight' = [inFlight EXCEPT ![n] = RemoveAt(@, i)]
    /\ lastEvent' = Event("request", n, "ok", NoDetail)
    /\ UNCHANGED <<now, services, lbVars>>
    /\ UNCHANGED auxVars

\* axios rejected with error before the deadline of call(): the operation's
\* promise is rejected and executeWithTimeout clears the timer.
HttpRequestRejected(n, i, error) ==
    /\ n \in DOMAIN services /\ n \in DOMAIN circuitBreakers
    /\ i \in 1..Len(inFlight[n])
    /\ now <= inFlight[n][i] + circuitBreakers[n].timeout
    /\ inFlight' = [inFlight EXCEPT ![n] = RemoveAt(@, i)]
    /\ failing' = Put(failing, n, Append(FailingOf(n), Failing("call", error, 0)))
    /\ lastEvent' = Event("operation", n, "rejected", [error |-> error])
    /\ UNCHANGED <<now, services, circuitBreakers, trialSuccesses, lbVars>>
    /\ UNCHANGED clientFrame

\* The deadline of call() expired before axios settled: the timer of
\* executeWithTimeout rejects with CIRCUIT_BREAKER_TIMEOUT.
HttpRequestTimeout(n, i) ==
    /\ n \in DOMAIN services /\ n \in DOMAIN circuitBreakers
    /\ i \in 1..Len(inFlight[n])
    /\ now >= inFlight[n][i] + circuitBreakers[n].timeout
    /\ inFlight' = [inFlight EXCEPT ![n] = RemoveAt(@, i)]
    /\ failing' = Put(failing, n, Append(FailingOf(n), Failing("call", TimeoutError, 0)))
    /\ lastEvent' = Event("operation", n, "CircuitTimeout", [error |-> TimeoutError])
    /\ UNCHANGED <<now, services, circuitBreakers, trialSuccesses, lbVars>>
    /\ UNCHANGED clientFrame

\* The catch block of call() for the j-th failing request of key n: the error
\* goes through the failure filter of the breaker request() took from the
\* registry (the one stored under n, as no registration comes in between),
\* and is thrown again.
HttpRequestCallCatch(n, j) ==
    /\ n \in DOMAIN circuitBreakers
    /\ j \in 1..Len(FailingOf(n))
    /\ failing[n][j].at = "call"
    /\ LET error == failing[n][j].error
       IN  /\ ShouldRecordFailure(error) => CanFail(circuitBreakers[n])
           /\ circuitBreakers' = [circuitBreakers EXCEPT ![n] = CallCatch(@, error, now)]
           /\ failing' = [failing EXCEPT ![n][j] =
                 Failing("request", error, IF ShouldRecordFailure(error) THEN 1 ELSE 0)]
           /\ lastEvent' = Event("execute", n,
                                 IF error = TimeoutError THEN "CircuitTimeout"
                                 ELSE "OperationError",
                                 [error |-> error, prev |-> circuitBreakers[n].state])
    /\ trialSuccesses' = TrialAfterRegistry(circuitBreakers', n, FALSE)
    /\ UNCHANGED <<now, services, inFlight, lbVars>>
    /\ UNCHANGED clientFrame

\* The registry after markServiceUnhealthy(n, error) at time t.
RequestFailed(svcs, cbs, n, error, t) ==
    IF n \in DOMAIN svcs
    THEN [services |-> [svcs EXCEPT ![n] = ServiceMarkedUnhealthy(@, error, t)],
          cbs |-> IF n \in DOMAIN cbs
                  THEN [cbs EXCEPT ![n] = RecordFailure(@, error, t)]
                  ELSE cbs]
    ELSE [services |-> svcs, cbs |-> cbs]

\* The report of one failure fits under the bounds on the counters.
CanFailRequest(n, error) ==
    /\ n \in DOMAIN services => services[n].failureCount < MaxFailureCount
    /\ (n \in DOMAIN circuitBreakers /\ ShouldRecordFailure(error))
          => CanFail(circuitBreakers[n])

\* The catch block of request() for the j-th failing request of key n, whose
\* error call() has thrown again: markServiceUnhealthy(serviceName, error)
\* hands the same error to recordFailure, and request() throws it.
HttpRequestCatch(n, j) ==
    /\ j \in 1..Len(FailingOf(n))
    /\ failing[n][j].at = "request"
    /\ LET error == failing[n][j].error
           failed == RequestFailed(services, circuitBreakers, n, error, now)
       IN  /\ CanFailRequest(n, error)
           /\ services' = failed.services
           /\ circuitBreakers' = failed.cbs
           /\ lastEvent' = Event("request", n,
                                 IF error = TimeoutError THEN "CircuitTimeout"
                                 ELSE "OperationError",
                                 [error |-> error, countedByCall |-> failing[n][j].counted])
    /\ failing' = [failing EXCEPT ![n] = RemoveAt(@, j)]
    /\ trialSuccesses' = TrialAfterRegistry(circuitBreakers', n, FALSE)
    /\ UNCHANGED <<now, inFlight, lbVars>>
    /\ UNCHANGED clientFrame

\* loadBalancer.getNextInstance(service) with the default algorithm, the
\* caller passing the record of the service under key k with the instance
\* list l.
GetNextInstanceWith(k, l) ==
    /\ k \in DOMAIN services
    /\ LET service == [services[k] EXCEPT !.instances = l]
           r == GetNextInstanceBy(currentIndices, connectionCounts, service, "roundRobin", 0)
       IN  /\ currentIndices' = r.indices
           /\ connectionCounts' = r.counts
           /\ recentSelections' =
                 IF r.by = "roundRobin"
                 THEN Selected(recentSelections, service.name, r.instance,
                               Len(FilterValid(service.instances)))
                 ELSE recentSelections
           /\ lastEvent' = Event("getNextInstance", service.name,
                                 IF r.ok THEN "ok" ELSE "NoInstances",
                                 [algorithm |-> "roundRobin", by |-> r.by,
                                  instance |-> r.instance, instances |-> l])
    /\ UNCHANGED <<now, services, circuitBreakers, inFlight, trialSuccesses>>
    /\ UNCHANGED auxVars

\* ------------------------------------------------------------------------
\* Health checker probes that outlive their Service record
\* ------------------------------------------------------------------------
\* HealthChecker.checkServiceHealth(service) after its await, response.ok,
\* when the registry has been destroyed meanwhile: onServiceHealthy writes
\* to the record the probe holds, which is out of the map.
StaleCheckerProbeHealthy(k) ==
    /\ k \notin DOMAIN services
    /\ CountOf(probes, k) > 0
    /\ probes' = [probes EXCEPT ![k] = @ - 1]
    /\ lastEvent' = Event("staleCheckerProbe", k, "healthy", NoDetail)
    /\ UNCHANGED <<now, failing, staleProbes, metrics, services, circuitBreakers, lbVars, inFlight,
                   trialSuccesses, metricsTimer, activeTimers, timersCreated, isRunning,
                   intervalId, registryProbes, proxied>>

\* The same for a failed probe: onServiceUnhealthy writes to the record the
\* probe holds and looks the breaker up under that record's name.
StaleCheckerProbeUnhealthy(k, error) ==
    LET bk == ServicesConfig[k].name
    IN  /\ k \notin DOMAIN services
        /\ CountOf(probes, k) > 0
        /\ bk \in DOMAIN circuitBreakers => CanFail(circuitBreakers[bk])
        /\ probes' = [probes EXCEPT ![k] = @ - 1]
        /\ circuitBreakers' = IF bk \in DOMAIN circuitBreakers
                              THEN [circuitBreakers EXCEPT ![bk] =
                                       RecordFailure(@, ExternalFailure, now)]
                              ELSE circuitBreakers
        /\ trialSuccesses' = TrialAfterRegistry(circuitBreakers', bk, FALSE)
        /\ lastEvent' = Event("staleCheckerProbe", k, "unhealthy", [error |-> error])
        /\ UNCHANGED <<now, failing, staleProbes, metrics, services, lbVars, inFlight, metricsTimer,
                       activeTimers, timersCreated, isRunning, intervalId, registryProbes,
                       proxied>>

\* ------------------------------------------------------------------------
\* Specifications
\* ------------------------------------------------------------------------
Next ==
    \/ Tick
    \/ \E k \in ServiceKeys : AdmissionCheck(k)
    \/ \E k \in ServiceKeys : Call(k)
    \/ \E k \in ServiceKeys : \E i \in 1..MaxInFlight : CallSuccess(k, i)
    \/ \E k \in ServiceKeys : \E i \in 1..MaxInFlight : \E e \in Errors : CallError(k, i, e)
    \/ \E k \in ServiceKeys : \E i \in 1..MaxInFlight : CallTimeout(k, i)
    \/ \E k \in ServiceKeys : \E e \in Errors : RecordFailureCall(k, e)
    \/ \E k \in ServiceKeys : RecordSuccessCall(k)
    \/ \E k \in ServiceKeys : \E s \in ForceInputs : ForceStateCall(k, s)

\* The breaker of a registered service driven through its own interface.
Spec == Init /\ [][Next]_vars

TrafficNext ==
    \/ Tick
    \/ \E k \in ServiceKeys : AdmissionCheck(k)
    \/ \E k \in ServiceKeys : Call(k)
    \/ \E k \in ServiceKeys : \E i \in 1..MaxInFlight : CallSuccess(k, i)
    \/ \E k \in ServiceKeys : \E i \in 1..MaxInFlight : \E e \in Errors : CallError(k, i, e)
    \/ \E k \in ServiceKeys : \E i \in 1..MaxInFlight : CallTimeout(k, i)
    \/ \E k \in ServiceKeys : \E e \in Errors : RecordFailureCall(k, e)
    \/ \E k \in ServiceKeys : RecordSuccessCall(k)

\* The same breaker when nobody uses the forceState escape hatch.
TrafficSpec == Init /\ [][TrafficNext]_vars

RegistryNext ==
    \/ Tick
    \/ \E n \in AllNames : GetServiceInstanceCall(n)
    \/ \E n \in AllNames : \E e \in ProxyErrors : MarkServiceUnhealthy(n, e)
    \/ \E n \in AllNames : MarkServiceHealthy(n)
    \/ \E k \in ServiceKeys : IncrementConnections(services[k].name, services[k].url)
    \/ \E k \in ServiceKeys : DecrementConnections(services[k].name, services[k].url)

\* The registry driven by the proxy layer.
RegistrySpec == Init /\ [][RegistryNext]_vars

ResolveNext ==
    \/ Tick
    \/ \E n \in AllNames : GetServiceInstanceCall(n)
    \/ \E n \in AllNames : \E e \in ProxyErrors : MarkServiceUnhealthy(n, e)
    \/ \E n \in AllNames : MarkServiceHealthy(n)

\* Resolution of instances when the configured url may be unusable.
ResolveSpec == ResolveInit /\ [][ResolveNext]_vars

\* Names the callers of markServiceHealthy / markServiceUnhealthy pass when
\* two services are registered.
OutcomeKeys == {"user", "order"}
OutcomeNames == OutcomeKeys \cup {UnknownName}

OutcomeInit == InitWith(OutcomeKeys, ServicesConfig)

\* Errors reported with an outcome: one the breaker counts, one it ignores.
OutcomeErrors == {PlainError, [code |-> "ECONNREFUSED", status |-> 0]}

OutcomeNext ==
    \/ \E n \in OutcomeNames : \E e \in OutcomeErrors : MarkServiceUnhealthy(n, e)
    \/ \E n \in OutcomeNames : MarkServiceHealthy(n)

\* Outcome reports on a registry that holds two services.
OutcomeSpec == OutcomeInit /\ [][OutcomeNext]_vars

LifecycleNext ==
    \/ \E k \in LifecycleKeys : RegisterService(k, ServicesConfig[k])
    \/ \E n \in ServiceKeys : \E e \in OutcomeErrors : MarkServiceUnhealthy(n, e)
    \/ \E n \in ServiceKeys : MarkServiceHealthy(n)
    \/ Destroy

\* Registration, outcome reports and teardown of the registry.
LifecycleSpec == Init /\ [][LifecycleNext]_vars

HealthInit == InitWith(OutcomeKeys, ServicesConfig)

HealthNext ==
    \/ StartHealthChecks
    \/ StopHealthChecks
    \/ IntervalTick
    \/ \E k \in OutcomeKeys : ProbeHealthy(k)
    \/ \E k \in OutcomeKeys : \E e \in ProbeErrors : ProbeUnhealthy(k, e)

\* The health checker probing two registered services.
HealthSpec == HealthInit /\ [][HealthNext]_vars

ProbeNext ==
    \/ StartHealthChecks
    \/ StopHealthChecks
    \/ IntervalTick
    \/ \E k \in ServiceKeys : ProbeHealthy(k)
    \/ \E k \in ServiceKeys : \E e \in ProbeErrors : ProbeUnhealthy(k, e)
    \/ \E n \in AllNames : CheckServiceHealth(n)
    \/ \E n \in ServiceKeys : CheckServiceHealthOk(n)
    \/ \E n \in ServiceKeys : CheckServiceHealthNotOk(n)
    \/ \E n \in ServiceKeys : \E e \in ProbeErrors : CheckServiceHealthError(n, e)

\* Health probes of one service, by the health checker and by the registry.
ProbeSpec == Init /\ [][ProbeNext]_vars

ProxyNext ==
    \/ Tick
    \/ OrderProxyRequest
    \/ \E c \in ProxyStatuses : OrderOnProxyRes(c)
    \/ \E e \in ProxyErrors : OrderOnError(e)

\* Inbound order traffic through the gateway.
ProxySpec == ProxyInit /\ [][ProxyNext]_vars

StatisticsNext ==
    \/ Tick
    \/ \E e \in OutcomeErrors : MarkServiceUnhealthy("user", e)
    \/ MarkServiceHealthy("user")
    \/ GetAllServices
    \/ GetServicesStatistics

\* The registry under outcome reports and the observability endpoints.
StatisticsSpec == Init /\ [][StatisticsNext]_vars

\* The instances connection counters are kept for.
CountedInstances == {"http://u1", "http://u2"}

\* The values of Math.random() that matter to an algorithm: only weighted and
\* random call it.
DrawsOf(algorithm) == IF algorithm \in {"weighted", "random"} THEN RandomDraws ELSE {0}

BalancerNext ==
    \/ \E k \in BalancerKeys : \E a \in AlgorithmInputs : \E m \in DrawsOf(a) :
          GetNextInstanceCall(k, a, m)
    \/ \E i \in CountedInstances : IncrementConnections(ServicesConfig.user.name, i)
    \/ \E i \in CountedInstances : DecrementConnections(ServicesConfig.user.name, i)

\* The load balancer called with every algorithm for two services.
BalancerSpec == BalancerInit /\ [][BalancerNext]_vars

ResetNext ==
    \/ \E k \in BalancerKeys : \E a \in AlgorithmInputs : \E m \in DrawsOf(a) :
          GetNextInstanceCall(k, a, m)
    \/ IncrementConnections(ServicesConfig.user.name, "http://u1")
    \/ DecrementConnections(ServicesConfig.user.name, "http://u1")
    \/ ResetStats

\* The same load balancer when its statistics are reset now and then.
ResetSpec == BalancerInit /\ [][ResetNext]_vars

\* The registry after registerServices for two services.
AssociationInit == InitWith(LifecycleKeys, ServicesConfig)

AssociationNext ==
    \/ \E k \in ServiceKeys : RegisterService(k, ServicesConfig[k])
    \/ \E n \in ServiceKeys : MarkServiceUnhealthy(n, PlainError)
    \/ \E n \in ServiceKeys : MarkServiceHealthy(n)
    \/ \E n \in ServiceKeys : CheckServiceHealth(n)
    \/ \E n \in ServiceKeys : CheckServiceHealthOk(n)
    \/ \E n \in ServiceKeys : CheckServiceHealthNotOk(n)
    \/ \E n \in ServiceKeys : CheckServiceHealthError(n, AbortError)
    \/ \E n \in ServiceKeys : StaleProbeOk(n)
    \/ \E n \in ServiceKeys : StaleProbeFailed(n, AbortError)
    \/ \E n \in ServiceKeys : ResetService(n)
    \/ Destroy

\* The registry under registration, outcome reports, probes, resets and teardown.
AssociationSpec == AssociationInit /\ [][AssociationNext]_vars

MetricsInit == InitWith(TwinKeys, ServicesConfig)

\* The breaker whose metrics timer fires; the other one's window is never reset.
ResetKey == "user"

MetricsNext ==
    \/ Tick
    \/ \E e \in OutcomeErrors : TwinRecordFailure(e)
    \/ TwinRecordSuccess
    \/ TwinAdmissionCheck
    \/ ResetMetrics(ResetKey)

\* Two breakers that take the same outcomes and admission checks while their
\* metrics are reset independently.
MetricsSpec == MetricsInit /\ [][MetricsNext]_vars


OverlapNext ==
    \/ Tick
    \/ \E k \in ServiceKeys : CallUpTo(k, MaxOverlap)
    \/ \E k \in ServiceKeys : \E i \in 1..MaxOverlap : CallSuccess(k, i)
    \/ \E k \in ServiceKeys : \E i \in 1..MaxOverlap : CallError(k, i, PlainError)
    \/ \E k \in ServiceKeys : \E i \in 1..MaxOverlap : CallTimeout(k, i)

OverlapSpec == Init /\ [][OverlapNext]_vars

RecoveryNext ==
    \/ Tick
    \/ \E k \in ServiceKeys : GetServiceInstanceCall(k)
    \/ \E k \in ServiceKeys : MarkServiceUnhealthy(k, PlainError)
    \/ \E k \in ServiceKeys : MarkServiceHealthy(k)
    \/ \E k \in ServiceKeys : RecordSuccessCall(k)
    \/ \E k \in ServiceKeys : CheckServiceHealth(k)
    \/ \E k \in ServiceKeys : CheckServiceHealthOk(k)
    \/ \E k \in ServiceKeys : ResetService(k)
    \/ \E k \in ServiceKeys : \E s \in ForceInputs : ForceStateCall(k, s)

\* A registered service whose breaker is fed failures and successes by the
\* proxy layer and by probes, asked for instances, reset by an operator and
\* forced into a state.
RecoverySpec == Init /\ [][RecoveryNext]_vars

\* The clock can still advance by the recovery timeout.
RecoverableBy(t) == t + RecoveryTimeout <= MaxTime

EventuallyNext ==
    \/ Tick
    \/ \E k \in ServiceKeys : AdmissionCheck(k)
    \/ \E k \in ServiceKeys : RecoverableBy(now) /\ RecordFailureCall(k, PlainError)
    \/ \E k \in ServiceKeys : RecordSuccessCall(k)
    \/ \E k \in ServiceKeys : \E s \in ForceInputs : RecoverableBy(now) /\ ForceStateCall(k, s)

\* Time keeps advancing and admission checks keep being made. Failures and
\* forced states come only while the clock can still run through a whole
\* recovery period afterwards.
EventuallySpec ==
    /\ Init
    /\ [][EventuallyNext]_vars
    /\ WF_vars(Tick)
    /\ \A k \in ServiceKeys : WF_vars(AdmissionCheck(k))

ClientNext ==
    \/ Tick
    \/ \E n \in AllNames : HttpRequest(n)
    \/ \E k \in ServiceKeys : \E i \in 1..MaxOverlap : HttpRequestResolved(k, i)
    \/ \E k \in ServiceKeys : \E i \in 1..MaxOverlap : \E e \in ProxyErrors :
          HttpRequestRejected(k, i, e)
    \/ \E k \in ServiceKeys : \E i \in 1..MaxOverlap : HttpRequestTimeout(k, i)
    \/ \E k \in ServiceKeys : \E j \in 1..MaxOverlap : HttpRequestCallCatch(k, j)
    \/ \E k \in ServiceKeys : \E j \in 1..MaxOverlap : HttpRequestCatch(k, j)

\* The registry and its breakers driven by HttpClient.request, with up to
\* MaxOverlap requests under way at once.
ClientSpec == Init /\ [][ClientNext]_vars

ReshapeNext ==
    \/ \E k \in LifecycleKeys : \E l \in InstanceLists : GetNextInstanceWith(k, l)
    \/ ResetStats

\* The load balancer asked for instances of two services whose instance
\* lists differ from call to call.
ReshapeSpec == AssociationInit /\ [][ReshapeNext]_vars

TeardownNext ==
    \/ StartHealthChecks
    \/ StopHealthChecks
    \/ IntervalTick
    \/ Destroy
    \/ \E k \in ServiceKeys : ProbeHealthy(k)
    \/ \E k \in ServiceKeys : ProbeUnhealthy(k, PlainError)
    \/ \E k \in ServiceKeys : StaleCheckerProbeHealthy(k)
    \/ \E k \in ServiceKeys : StaleCheckerProbeUnhealthy(k, PlainError)
    \/ \E n \in ServiceKeys : CheckServiceHealth(n)
    \/ \E n \in ServiceKeys : CheckServiceHealthOk(n)
    \/ \E n \in ServiceKeys : CheckServiceHealthError(n, AbortError)
    \/ \E n \in ServiceKeys : StaleProbeOk(n)
    \/ \E n \in ServiceKeys : StaleProbeFailed(n, AbortError)

\* Probes of the health checker and of the registry while the checker is
\* stopped and the registry destroyed, as the graceful shutdown does.
TeardownSpec == Init /\ [][TeardownNext]_vars

\* ------------------------------------------------------------------------
\* Vocabulary of the properties
\* ------------------------------------------------------------------------
\* The step is an admission check on breaker k (direct, or the one call() makes).
AdmissionStep(k) ==
    /\ lastEvent'.name = k
    /\ \/ lastEvent'.op = "isRequestAllowed"
       \/ lastEvent'.op = "execute" /\ lastEvent'.result \in {"admitted", "CircuitOpen"}

AdmittedStep == lastEvent'.result \in {"allowed", "admitted"}

IsErrorEvent(ev, k) ==
    /\ ev.name = k
    /\ \/ ev.op = "recordFailure"
       \/ ev.op = "execute" /\ ev.result \in {"OperationError", "CircuitTimeout"}

IsSuccessEvent(ev, k) ==
    /\ ev.name = k
    /\ \/ ev.op = "recordSuccess"
       \/ ev.op = "execute" /\ ev.result = "ok"

\* The step hands an error to breaker k that the failure filter counts.
FailureStep(k) ==
    /\ IsErrorEvent(lastEvent', k)
    /\ ShouldRecordFailure(lastEvent'.detail.error)

SuccessStep(k) == IsSuccessEvent(lastEvent', k)

ForceStep(k) == lastEvent'.name = k /\ lastEvent'.op = "forceState"

\* The errors the claims call client errors and DNS/connection errors.
IsClientOrConnectionError(e) ==
    \/ e.status >= 400 /\ e.status < 500
    \/ e.code \in {"ENOTFOUND", "ECONNREFUSED", "ETIMEDOUT"}

\* The CLOSED -> OPEN and HALF_OPEN -> OPEN rules applied to a counted failure.
FailureRulesApplied(pre, post) ==
    /\ post.failureCount = pre.failureCount + 1
    /\ pre.state = "HALF_OPEN" => post.state = "OPEN"
    /\ (pre.state = "CLOSED" /\ pre.failureCount + 1 >= FailureThreshold) => post.state = "OPEN"
    /\ (pre.state = "CLOSED" /\ pre.failureCount + 1 < FailureThreshold) => post.state = "CLOSED"

\* ------------------------------------------------------------------------
\* C1
\* ------------------------------------------------------------------------
\* C1: for a breaker in OPEN, whatever was recorded on it while OPEN, every
\* admission check made at now < nextAttemptTime is denied and leaves it OPEN,
\* and a check made at now >= nextAttemptTime moves it to HALF_OPEN and is
\* admitted.
C1_OpenAdmissionFollowsNextAttemptTime ==
    [][\A k \in ServiceKeys :
          (circuitBreakers[k].state = "OPEN" /\ AdmissionStep(k)) =>
             IF now < circuitBreakers[k].nextAttemptTime
             THEN ~AdmittedStep /\ circuitBreakers'[k].state = "OPEN"
             ELSE AdmittedStep /\ circuitBreakers'[k].state = "HALF_OPEN"]_vars

\* ------------------------------------------------------------------------
\* C2
\* ------------------------------------------------------------------------
\* C2: the failureCount of a CLOSED breaker is the number of failures recorded
\* since the last success (0 on entering CLOSED, +1 per failure, 0 after a
\* success, untouched by anything else); the failure that brings it to
\* failureThreshold moves the breaker to OPEN, where an admission check made
\* before the recovery timeout has run is denied; a failure that leaves it
\* below failureThreshold leaves the breaker CLOSED.
C2_ThresholdFailuresOpen ==
    [][\A k \in ServiceKeys :
          /\ (circuitBreakers[k].state # "CLOSED" /\ circuitBreakers'[k].state = "CLOSED")
                => circuitBreakers'[k].failureCount = 0
          /\ (circuitBreakers[k].state = "CLOSED" /\ FailureStep(k)) =>
                IF circuitBreakers[k].failureCount + 1 >= FailureThreshold
                THEN /\ circuitBreakers[k].failureCount + 1 = FailureThreshold
                     /\ circuitBreakers'[k].state = "OPEN"
                     /\ ~IsRequestAllowed(circuitBreakers'[k], now').allowed
                     /\ ~IsRequestAllowed(circuitBreakers'[k], now' + RecoveryTimeout - 1).allowed
                ELSE /\ circuitBreakers'[k].state = "CLOSED"
                     /\ circuitBreakers'[k].failureCount = circuitBreakers[k].failureCount + 1
          /\ (circuitBreakers[k].state = "CLOSED" /\ SuccessStep(k)) =>
                /\ circuitBreakers'[k].state = "CLOSED"
                /\ circuitBreakers'[k].failureCount = 0
          /\ (circuitBreakers[k].state = "CLOSED"
                /\ ~FailureStep(k) /\ ~SuccessStep(k) /\ ~ForceStep(k)) =>
                /\ circuitBreakers'[k].state = "CLOSED"
                /\ circuitBreakers'[k].failureCount = circuitBreakers[k].failureCount]_vars

\* A breaker that the threshold failure has just opened.
C2_Witness ==
    \E k \in ServiceKeys :
        /\ IsErrorEvent(lastEvent, k)
        /\ ShouldRecordFailure(lastEvent.detail.error)
        /\ lastEvent.detail.prev = "CLOSED"
        /\ circuitBreakers[k].state = "OPEN"
        /\ circuitBreakers[k].failureCount = FailureThreshold

\* ------------------------------------------------------------------------
\* C3
\* ------------------------------------------------------------------------
\* C3: a failure recorded on a HALF_OPEN breaker moves it to OPEN in that step
\* and sets nextAttemptTime to now + recoveryTimeout, whatever successCount is.
C3_HalfOpenFailureReopens ==
    [][\A k \in ServiceKeys :
          (circuitBreakers[k].state = "HALF_OPEN" /\ FailureStep(k)) =>
             /\ circuitBreakers'[k].state = "OPEN"
             /\ circuitBreakers'[k].nextAttemptTime = now + RecoveryTimeout]_vars

\* A breaker reopened by a failure in HALF_OPEN after a trial success, at a
\* time when its earlier deadline had passed.
C3_Witness ==
    \E k \in ServiceKeys :
        /\ IsErrorEvent(lastEvent, k)
        /\ ShouldRecordFailure(lastEvent.detail.error)
        /\ lastEvent.detail.prev = "HALF_OPEN"
        /\ circuitBreakers[k].state = "OPEN"
        /\ circuitBreakers[k].successCount >= 1
        /\ trialSuccesses[k] >= 1
        /\ now >= RecoveryTimeout

\* ------------------------------------------------------------------------
\* C4
\* ------------------------------------------------------------------------
\* C4: a HALF_OPEN breaker becomes CLOSED (other than by forceState) exactly
\* in the step that records the successThreshold-th success since it entered
\* HALF_OPEN, and failureCount and successCount are then both 0.
C4_ClosesAfterThresholdSuccesses ==
    [][\A k \in ServiceKeys :
          (circuitBreakers[k].state = "HALF_OPEN" /\ lastEvent'.name = k /\ ~ForceStep(k)) =>
             /\ (circuitBreakers'[k].state = "CLOSED")
                   <=> (SuccessStep(k) /\ trialSuccesses'[k] = SuccessThreshold)
             /\ circuitBreakers'[k].state = "CLOSED" =>
                   /\ circuitBreakers'[k].failureCount = 0
                   /\ circuitBreakers'[k].successCount = 0]_vars

\* ------------------------------------------------------------------------
\* C5
\* ------------------------------------------------------------------------
\* C5: in every reachable state nextAttemptTime is non-null if and only if the
\* breaker is OPEN.
C5_NextAttemptTimeIffOpen ==
    \A k \in ServiceKeys :
        (circuitBreakers[k].nextAttemptTime # NullTime) <=> (circuitBreakers[k].state = "OPEN")

\* ------------------------------------------------------------------------
\* C6
\* ------------------------------------------------------------------------
\* C6: an execute whose operation exceeds the timeout fails with
\* CircuitTimeout and counts as a failure: failureCount increases by 1 and the
\* CLOSED -> OPEN / HALF_OPEN -> OPEN rules are applied.
C6_TimeoutCountsAsFailure ==
    [][\A k \in ServiceKeys :
          (lastEvent'.name = k /\ lastEvent'.op = "execute"
              /\ lastEvent'.result = "CircuitTimeout") =>
             FailureRulesApplied(circuitBreakers[k], circuitBreakers'[k])]_vars

\* ------------------------------------------------------------------------
\* C7
\* ------------------------------------------------------------------------
\* C7: when the admission check of execute denies the call, execute fails with
\* CircuitOpen carrying the breaker's state and nextAttemptTime, the operation
\* is not invoked, and the breaker's state and counters are those before the
\* call.
C7_RejectedCallChangesNothing ==
    [][\A k \in ServiceKeys :
          (lastEvent'.name = k /\ lastEvent'.op = "execute"
              /\ lastEvent'.result \in {"admitted", "CircuitOpen"}) =>
             /\ ~IsRequestAllowed(circuitBreakers[k], now).allowed
                   => lastEvent'.result = "CircuitOpen"
             /\ lastEvent'.result = "CircuitOpen" =>
                   /\ inFlight' = inFlight
                   /\ circuitBreakers'[k] = circuitBreakers[k]
                   /\ lastEvent'.detail.circuitBreakerState = circuitBreakers[k].state
                   /\ lastEvent'.detail.nextAttemptTime = circuitBreakers[k].nextAttemptTime
                   /\ lastEvent'.detail.nextAttemptTime # NullTime]_vars

\* A call rejected by an OPEN breaker that has recorded a failure since it
\* opened and whose counters are not zero.
C7_Witness ==
    \E k \in ServiceKeys :
        /\ lastEvent.op = "execute" /\ lastEvent.name = k /\ lastEvent.result = "CircuitOpen"
        /\ circuitBreakers[k].failureCount > FailureThreshold
        /\ circuitBreakers[k].successCount > 0
        /\ now > TimeStep

\* ------------------------------------------------------------------------
\* C8
\* ------------------------------------------------------------------------
\* C8: under the default filter an HTTP 4xx error or a DNS/connection error
\* (ENOTFOUND, ECONNREFUSED, ETIMEDOUT) leaves the breaker unchanged, from
\* execute and from recordFailure alike; every other error increments
\* failureCount and is subject to the transition rules.
C8_OnlyClientAndConnectionErrorsIgnored ==
    [][\A k \in ServiceKeys :
          IsErrorEvent(lastEvent', k) =>
             IF IsClientOrConnectionError(lastEvent'.detail.error)
             THEN circuitBreakers'[k] = circuitBreakers[k]
             ELSE FailureRulesApplied(circuitBreakers[k], circuitBreakers'[k])]_vars

\* ------------------------------------------------------------------------
\* C9
\* ------------------------------------------------------------------------
\* C9: getServiceInstance for a registered service whose breaker denies
\* admission fails with CircuitOpen and leaves the round-robin indices and the
\* connection counters as they were.
C9_DeniedResolveSkipsBalancer ==
    [][\A n \in ServiceKeys :
          (lastEvent'.op = "getServiceInstance" /\ lastEvent'.name = n
              /\ n \in DOMAIN services
              /\ ~IsRequestAllowed(circuitBreakers[n], now).allowed) =>
             /\ lastEvent'.result = "CircuitOpen"
             /\ currentIndices' = currentIndices
             /\ connectionCounts' = connectionCounts]_vars

\* A denied resolution of a service the balancer has served before and that
\* has an open connection.
C9_Witness ==
    \E n \in ServiceKeys :
        /\ lastEvent.op = "getServiceInstance" /\ lastEvent.name = n
        /\ lastEvent.result = "CircuitOpen"
        /\ services[n].name \in DOMAIN currentIndices
        /\ ConnectionCount(connectionCounts, <<services[n].name, services[n].url>>) > 0

\* ------------------------------------------------------------------------
\* C10
\* ------------------------------------------------------------------------
\* C10: getServiceInstance on a name that is not registered fails with
\* ServiceNotFound and changes no Service record, breaker, round-robin index
\* or connection counter.
C10_UnknownNameChangesNothing ==
    [][(lastEvent'.op = "getServiceInstance" /\ lastEvent'.name \notin DOMAIN services) =>
          /\ lastEvent'.result = "ServiceNotFound"
          /\ UNCHANGED <<services, circuitBreakers, currentIndices, connectionCounts,
                         inFlight, now>>]_vars

\* A failed resolution of an unknown name while a registered service is
\* unhealthy with its breaker OPEN and the balancer holds a cursor.
C10_Witness ==
    /\ lastEvent.op = "getServiceInstance"
    /\ lastEvent.name = UnknownName
    /\ lastEvent.result = "ServiceNotFound"
    /\ \E k \in ServiceKeys :
          /\ circuitBreakers[k].state = "OPEN"
          /\ services[k].status = "unhealthy"
          /\ services[k].name \in DOMAIN currentIndices

\* ------------------------------------------------------------------------
\* C11
\* ------------------------------------------------------------------------
\* C11: getServiceInstance fails only with ServiceNotFound or CircuitOpen; for
\* a registered service whose breaker admits the call it returns a URL, and
\* when the load balancer finds no valid instance that URL is the service's
\* configured url.
C11_ResolveFallsBackToConfiguredUrl ==
    [][lastEvent'.op = "getServiceInstance" =>
          /\ lastEvent'.result \in {"ok", "ServiceNotFound", "CircuitOpen"}
          /\ \A n \in DOMAIN services :
                (lastEvent'.name = n /\ IsRequestAllowed(circuitBreakers[n], now).allowed) =>
                   /\ lastEvent'.result = "ok"
                   /\ ~GetNextInstance(currentIndices, services[n]).ok =>
                         /\ lastEvent'.detail.url = services[n].url
                         /\ currentIndices' = currentIndices]_vars

\* A resolution that returned a url the load balancer had rejected, for a
\* service that has been reported unhealthy.
C11_Witness ==
    \E n \in DOMAIN services :
        /\ lastEvent.op = "getServiceInstance" /\ lastEvent.name = n
        /\ lastEvent.result = "ok"
        /\ ~IsValidUrl(lastEvent.detail.url)
        /\ lastEvent.detail.url = services[n].url
        /\ services[n].status = "unhealthy"

\* ------------------------------------------------------------------------
\* C12
\* ------------------------------------------------------------------------
\* C12: a proxy forwards an inbound request only after getServiceInstance
\* returned a target for it, so no request is forwarded to a service whose
\* breaker is OPEN with now < nextAttemptTime.
C12_ForwardOnlyAfterResolve ==
    [][\A k \in DOMAIN services :
          (lastEvent'.op = "proxy" /\ lastEvent'.name = k /\ lastEvent'.result = "forwarded") =>
             /\ lastEvent'.detail.resolved
             /\ ~(circuitBreakers[k].state = "OPEN" /\ now < circuitBreakers[k].nextAttemptTime)]_vars

\* ------------------------------------------------------------------------
\* C13
\* ------------------------------------------------------------------------
\* C13: markServiceHealthy and markServiceUnhealthy on a name that is not
\* registered return normally and change nothing: no Service record and no
\* breaker is created or modified.
C13_ReportOnUnknownNameIsNoOp ==
    [][(lastEvent'.op \in {"markServiceUnhealthy", "markServiceHealthy"}
           /\ lastEvent'.name \notin DOMAIN services) =>
          /\ lastEvent'.result = "ok"
          /\ UNCHANGED <<services, circuitBreakers, currentIndices, connectionCounts,
                         inFlight, now, auxVars>>]_vars

\* A failure reported on an unknown name while one registered service is
\* unhealthy with its breaker OPEN and the other is healthy.
C13_Witness ==
    /\ lastEvent.op = "markServiceUnhealthy"
    /\ lastEvent.name = UnknownName
    /\ UnknownName \notin DOMAIN services
    /\ \E j, k \in DOMAIN services :
          /\ services[j].status = "unhealthy" /\ circuitBreakers[j].state = "OPEN"
          /\ services[k].status = "healthy"

\* ------------------------------------------------------------------------
\* C14
\* ------------------------------------------------------------------------
\* C14: on a registered service, markServiceUnhealthy sets status unhealthy,
\* adds exactly 1 to Service.failureCount, stores the error as lastError and
\* hands the error once to that service's breaker; markServiceHealthy sets
\* status healthy, failureCount 0 and records one success on the breaker;
\* both set lastHealthCheck to the current time and leave every other
\* service and breaker as they were.
C14_ReportUpdatesServiceAndBreaker ==
    [][\A n \in DOMAIN services :
          /\ (lastEvent'.op = "markServiceUnhealthy" /\ lastEvent'.name = n) =>
                /\ services'[n].status = "unhealthy"
                /\ services'[n].failureCount = services[n].failureCount + 1
                /\ services'[n].lastError = lastEvent'.detail.error
                /\ services'[n].lastHealthCheck = now
                /\ circuitBreakers'[n] = RecordFailure(circuitBreakers[n], lastEvent'.detail.error, now)
                /\ IF ShouldRecordFailure(lastEvent'.detail.error)
                   THEN circuitBreakers'[n].failureCount = circuitBreakers[n].failureCount + 1
                   ELSE circuitBreakers'[n] = circuitBreakers[n]
          /\ (lastEvent'.op = "markServiceHealthy" /\ lastEvent'.name = n) =>
                /\ services'[n].status = "healthy"
                /\ services'[n].failureCount = 0
                /\ services'[n].lastHealthCheck = now
                /\ circuitBreakers'[n] = RecordSuccess(circuitBreakers[n], now)
                /\ circuitBreakers'[n].successCount = circuitBreakers[n].successCount + 1
          /\ (lastEvent'.op \in {"markServiceUnhealthy", "markServiceHealthy"}
                /\ lastEvent'.name = n) =>
                \A j \in DOMAIN services \ {n} :
                    /\ services'[j] = services[j]
                    /\ circuitBreakers'[j] = circuitBreakers[j]]_vars

\* A success reported on a service that had failures, while the other
\* service is unhealthy with a breaker that has counted failures.
C14_Witness ==
    \E n, j \in DOMAIN services :
        /\ n # j
        /\ lastEvent.op = "markServiceHealthy" /\ lastEvent.name = n
        /\ services[n].status = "healthy" /\ services[n].failureCount = 0
        /\ circuitBreakers[n].state = "OPEN"
        /\ services[j].status = "unhealthy" /\ services[j].failureCount >= 2
        /\ circuitBreakers[j].failureCount >= 1

\* ------------------------------------------------------------------------
\* C15
\* ------------------------------------------------------------------------
\* The metrics-reset timers of breakers that are still running.
RunningMetricsTimers == {t \in activeTimers : t[1] # HealthCheckerOwner}

\* C15: after any registrations (the same name again included) and outcome
\* reports, destroy() returns normally, the first time and when repeated, and
\* leaves no metrics-reset timer running for any breaker the registry created.
C15_TeardownLeavesNoTimer ==
    lastEvent.op = "destroy" =>
        /\ lastEvent.result = "ok"
        /\ RunningMetricsTimers = {}

\* ------------------------------------------------------------------------
\* Vocabulary of the health-checker properties
\* ------------------------------------------------------------------------
\* The step initiates a probe pass: a new probe is in flight for some service.
PassInitiated == \E k \in DOMAIN probes : probes'[k] > probes[k]

\* The step initiates exactly one pass over all registered services.
OnePassOverAll ==
    \A k \in DOMAIN probes :
        probes'[k] = IF k \in DOMAIN services THEN probes[k] + 1 ELSE probes[k]

\* ------------------------------------------------------------------------
\* C16
\* ------------------------------------------------------------------------
\* C16: startHealthChecks while running changes nothing (no second timer, no
\* extra pass), stopHealthChecks while stopped changes nothing, and after
\* every call at most one periodic timer exists, and one exists exactly when
\* the checker is running.
C16_StartStopIdempotent ==
    [][/\ (isRunning /\ lastEvent'.op = "startHealthChecks") =>
             UNCHANGED <<now, services, circuitBreakers, lbVars, inFlight, auxVars>>
       /\ (~isRunning /\ lastEvent'.op = "stopHealthChecks") =>
             UNCHANGED <<now, services, circuitBreakers, lbVars, inFlight, auxVars>>
       /\ (~isRunning /\ lastEvent'.op = "startHealthChecks") => isRunning'
       /\ lastEvent'.op = "stopHealthChecks" => ~isRunning'
       /\ Cardinality(HealthTimers(activeTimers')) <= 1
       /\ isRunning' <=> HealthTimers(activeTimers') # {}
       /\ isRunning' <=> intervalId' # NullTimer
       /\ intervalId' # NullTimer => HealthTimers(activeTimers') = {intervalId'}]_vars

\* A start that found the checker running, after the checker had been
\* stopped and started again and while probes were in flight.
C16_Witness ==
    /\ lastEvent.op = "startHealthChecks"
    /\ lastEvent.result = "alreadyRunning"
    /\ isRunning
    /\ Created(HealthCheckerOwner) = 2
    /\ \E k \in DOMAIN probes : probes[k] > 0

\* ------------------------------------------------------------------------
\* C17
\* ------------------------------------------------------------------------
\* C17: every step that takes the checker from stopped to running is a
\* startHealthChecks that initiates exactly one pass over all registered
\* services and then schedules the timer; every other pass is initiated by a
\* timer tick while the checker is running.
C17_StartProbesOnceThenTimer ==
    [][/\ (~isRunning /\ isRunning') =>
             /\ lastEvent'.op = "startHealthChecks"
             /\ OnePassOverAll
             /\ lastEvent'.detail.log = <<"performHealthChecks", "setInterval">>
             /\ intervalId' \in activeTimers' \ activeTimers
       /\ (PassInitiated /\ ~(~isRunning /\ isRunning')) =>
             /\ lastEvent'.op = "intervalTick"
             /\ isRunning /\ isRunning'
             /\ OnePassOverAll]_vars

\* A second start of the checker, with probes of an earlier pass still in
\* flight for every service.
C17_Witness ==
    /\ lastEvent.op = "startHealthChecks"
    /\ lastEvent.result = "started"
    /\ Created(HealthCheckerOwner) = 2
    /\ \A k \in DOMAIN services : probes[k] = 2

\* ------------------------------------------------------------------------
\* C18
\* ------------------------------------------------------------------------
\* C18: the completion of one service's probe, failed or not, changes only
\* that service's record and removes only that probe: the probes of the other
\* services stay in flight and complete on their own, in either order, and a
\* failed probe ends as an unhealthy result, never as an error of the tick.
C18_ProbeFailuresAreIsolated ==
    [][/\ \A k \in DOMAIN services :
             (lastEvent'.op = "probe" /\ lastEvent'.name = k) =>
                /\ lastEvent'.result \in {"healthy", "unhealthy"}
                /\ probes'[k] = probes[k] - 1
                /\ services'[k].status = lastEvent'.result
                /\ \A j \in DOMAIN services \ {k} :
                      /\ probes'[j] = probes[j]
                      /\ services'[j] = services[j]
                      /\ probes[j] > 0 => ENABLED ProbeHealthy(j)
       /\ lastEvent'.op = "intervalTick" => lastEvent'.result = "ok"]_vars

\* A probe that completed healthy after the probe of another service of the
\* same pass had failed, with no probe left in flight.
C18_Witness ==
    \E k, j \in DOMAIN services :
        /\ k # j
        /\ lastEvent.op = "probe" /\ lastEvent.name = k /\ lastEvent.result = "healthy"
        /\ services[k].status = "healthy"
        /\ services[j].status = "unhealthy" /\ services[j].failureCount = 1
        /\ \A i \in DOMAIN probes : probes[i] = 0

\* ------------------------------------------------------------------------
\* C19
\* ------------------------------------------------------------------------
\* The step is the completion of a failed health probe of service k, from the
\* health checker's pass or from the registry's checkServiceHealth.
FailedProbeStep(k) ==
    /\ lastEvent'.op \in {"probe", "registryProbe"}
    /\ lastEvent'.name = k
    /\ lastEvent'.result = "unhealthy"

\* C19: when a health probe of a registered service fails, from the registry
\* or from the health checker, the service becomes unhealthy, its failureCount
\* grows by exactly 1 and the breaker registered for the service records one
\* failure.
C19_FailedProbeReachesBreaker ==
    [][\A k \in DOMAIN services :
          FailedProbeStep(k) =>
             /\ services'[k].status = "unhealthy"
             /\ services'[k].failureCount = services[k].failureCount + 1
             /\ circuitBreakers'[k].failureCount = circuitBreakers[k].failureCount + 1
             /\ circuitBreakers'[k].lastFailureTime = now]_vars

\* ------------------------------------------------------------------------
\* C20
\* ------------------------------------------------------------------------
\* C20: every result of a probe of the health checker's pass is recorded on
\* the probed service's breaker: a healthy result as one success, an
\* unhealthy result as one failure.
C20_CheckerFeedsBreaker ==
    [][\A k \in DOMAIN services :
          (lastEvent'.op = "probe" /\ lastEvent'.name = k) =>
             IF lastEvent'.result = "healthy"
             THEN circuitBreakers'[k] = RecordSuccess(circuitBreakers[k], now)
             ELSE circuitBreakers'[k] = RecordFailure(circuitBreakers[k], ExternalFailure, now)]_vars

\* ------------------------------------------------------------------------
\* C21
\* ------------------------------------------------------------------------
\* C21: getAllServices() and getServicesStatistics() are read-only: a call
\* leaves every breaker (state, counters, nextAttemptTime) and every Service
\* record as it was.
C21_ObservabilityReadsChangeNothing ==
    [][lastEvent'.op \in {"getAllServices", "getServicesStatistics"} =>
          UNCHANGED <<services, circuitBreakers>>]_vars

\* ------------------------------------------------------------------------
\* C22
\* ------------------------------------------------------------------------
\* The valid instances of the service registered under key k.
ValidInstances(k) == FilterValid(services[k].instances)

\* The latest round-robin results for the service registered under key k.
RecentOf(k) ==
    IF services[k].name \in DOMAIN recentSelections
    THEN recentSelections[services[k].name].all
    ELSE <<>>

\* C22: for a fixed list of N valid instances of a service, round-robin
\* selections start at the first instance and each selection is followed by
\* the next instance of the list, cyclically, so that any N consecutive
\* selections return each instance exactly once, whatever is selected for
\* other services in between.
C22_RoundRobinVisitsEachOncePerCycle ==
    \A k \in DOMAIN services :
        LET valid == ValidInstances(k)
            N == Len(valid)
            recent == RecentOf(k)
        IN  /\ Len(recent) <= N
            /\ Len(recent) < N => recent = SubSeq(valid, 1, Len(recent))
            /\ \A i \in 1..(Len(recent) - 1) :
                  \E p \in 1..N : recent[i] = valid[p] /\ recent[i + 1] = valid[(p % N) + 1]
            /\ Len(recent) = N =>
                  \A p \in 1..N : Cardinality({i \in 1..N : recent[i] = valid[p]}) = 1

\* The latest round-robin results for the service registered under key k
\* since resetStats() was last called.
RecentSinceReset(k) ==
    IF services[k].name \in DOMAIN recentSelections
    THEN recentSelections[services[k].name].sinceReset
    ELSE <<>>

\* C22, amended: for a fixed list of N valid instances of a service and as
\* long as resetStats() is not called, round-robin selections start at the
\* first instance and each selection is followed by the next instance of
\* the list, cyclically, so that any N consecutive selections return each
\* instance exactly once, whatever is selected for other services in
\* between; resetStats() starts the rotation again at the first instance.
C22_RoundRobinVisitsEachOncePerCycleBetweenResets ==
    \A k \in DOMAIN services :
        LET valid == ValidInstances(k)
            N == Len(valid)
            recent == RecentSinceReset(k)
        IN  /\ Len(recent) <= N
            /\ Len(recent) < N => recent = SubSeq(valid, 1, Len(recent))
            /\ \A i \in 1..(Len(recent) - 1) :
                  \E p \in 1..N : recent[i] = valid[p] /\ recent[i + 1] = valid[(p % N) + 1]
            /\ Len(recent) = N =>
                  \A p \in 1..N : Cardinality({i \in 1..N : recent[i] = valid[p]}) = 1

\* The user service has three instances; its statistics were reset after
\* the first selection, and the two selections made since returned the first
\* and the second instance; the order service was selected for too.
C22_Witness ==
    /\ Len(ValidInstances("user")) = 3
    /\ RecentOf("user") = <<"http://u1", "http://u1", "http://u2">>
    /\ RecentSinceReset("user") = <<"http://u1", "http://u2">>
    /\ Len(RecentSinceReset("order")) = 2
    /\ lastEvent.op = "getNextInstance" /\ lastEvent.detail.by = "roundRobin"

\* ------------------------------------------------------------------------
\* C23
\* ------------------------------------------------------------------------
\* The step is a getNextInstance call that was given at least one valid
\* instance.
SelectionStep ==
    /\ lastEvent'.op = "getNextInstance"
    /\ "instances" \in DOMAIN lastEvent'.detail
    /\ Len(FilterValid(lastEvent'.detail.instances)) > 0

\* C23: the round-robin cursor stored for a service name is in
\* [0, instanceCount), instanceCount being the number of valid instances the
\* next getNextInstance call for that name is given, whatever the earlier
\* calls were given; and a round-robin selection of the last valid instance
\* sets the cursor to 0.
C23_CursorStaysInRange ==
    [][SelectionStep =>
          LET name == lastEvent'.name
              valid == FilterValid(lastEvent'.detail.instances)
          IN  /\ name \in DOMAIN currentIndices =>
                    /\ currentIndices[name] >= 0
                    /\ currentIndices[name] < Len(valid)
              /\ (/\ lastEvent'.detail.by = "roundRobin"
                  /\ lastEvent'.detail.instance = valid[Len(valid)])
                    => currentIndices'[name] = 0]_vars

\* ------------------------------------------------------------------------
\* C24
\* ------------------------------------------------------------------------
\* C24: forceState with a value that is not CLOSED, OPEN or HALF_OPEN fails
\* with InvalidState, leaves the breaker (state, counters, nextAttemptTime)
\* as it was and does not reach the state-change notification.
C24_InvalidForceStateIsRejected ==
    [][\A k \in DOMAIN circuitBreakers :
          (ForceStep(k) /\ lastEvent'.detail.newState \notin STATES) =>
             /\ lastEvent'.result = "InvalidState"
             /\ ~lastEvent'.detail.notified
             /\ circuitBreakers'[k] = circuitBreakers[k]]_vars

\* An invalid state was forced on a breaker that is OPEN with five failures.
C24_Witness ==
    /\ lastEvent.op = "forceState"
    /\ lastEvent.detail.newState \notin STATES
    /\ lastEvent.result = "InvalidState"
    /\ circuitBreakers[lastEvent.name].state = "OPEN"
    /\ circuitBreakers[lastEvent.name].failureCount = FailureThreshold

\* ------------------------------------------------------------------------
\* C25
\* ------------------------------------------------------------------------
\* The step registers a Service under key k.
RegisterStep(k) == lastEvent'.op = "registerService" /\ lastEvent'.name = k

\* C25: after every register, outcome report, probe, resetService and
\* teardown the registered names are exactly the names with a breaker, no
\* breaker (told apart by the timer its constructor created) is stored under
\* two names, and a name that stays registered without being registered
\* again keeps its breaker.
C25_OneBreakerPerService ==
    [][/\ DOMAIN services' = DOMAIN circuitBreakers'
       /\ \A j, k \in DOMAIN circuitBreakers' :
             j # k => metricsTimer'[j] # metricsTimer'[k]
       /\ \A k \in (DOMAIN services) \cap (DOMAIN services') :
             ~RegisterStep(k) => metricsTimer'[k] = metricsTimer[k]]_vars

\* Two services are registered, the user service for the second time, and a
\* probe that started before the second registration has just completed.
C25_Witness ==
    /\ DOMAIN services = {"user", "order"}
    /\ metricsTimer["user"] = <<"user", 2>>
    /\ lastEvent.op = "staleProbe"
    /\ circuitBreakers["user"].failureCount > 0

\* ------------------------------------------------------------------------
\* C26
\* ------------------------------------------------------------------------
\* C26: registerService(name, config) leaves under name a Service with
\* status unknown, failureCount 0, no health check or error on record and
\* instances = [config.url], and a breaker that is CLOSED with zero counters
\* and no deadline, whatever was stored under name before.
C26_RegisterGivesFreshServiceAndBreaker ==
    [][\A k \in LifecycleKeys :
          RegisterStep(k) =>
             /\ services'[k].status = "unknown"
             /\ services'[k].failureCount = 0
             /\ services'[k].instances = <<ServicesConfig[k].url>>
             /\ services'[k].lastHealthCheck = NullTime
             /\ services'[k].lastError = NoError
             /\ circuitBreakers'[k].state = "CLOSED"
             /\ circuitBreakers'[k].failureCount = 0
             /\ circuitBreakers'[k].successCount = 0
             /\ circuitBreakers'[k].lastFailureTime = NullTime
             /\ circuitBreakers'[k].nextAttemptTime = NullTime]_vars

\* The user service was registered again while it was unhealthy and its
\* breaker was OPEN.
C26_Witness ==
    /\ lastEvent.op = "registerService" /\ lastEvent.name = "user"
    /\ lastEvent.detail.replaced = [status |-> "unhealthy", state |-> "OPEN"]
    /\ services["user"].status = "unknown"
    /\ circuitBreakers["user"].state = "CLOSED"

\* ------------------------------------------------------------------------
\* C27
\* ------------------------------------------------------------------------
\* The two breakers are in the same state with the same consecutive counters
\* and the same deadline.
TwinsAgree(cbs) ==
    \A j, k \in TwinKeys :
        /\ cbs[j].state = cbs[k].state
        /\ cbs[j].failureCount = cbs[k].failureCount
        /\ cbs[j].successCount = cbs[k].successCount
        /\ cbs[j].nextAttemptTime = cbs[k].nextAttemptTime

\* C27: resetMetrics leaves state, failureCount, successCount and
\* nextAttemptTime of its breaker unchanged, and two breakers that take the
\* same outcomes and admission checks stay in the same state with the same
\* counters and deadline although the metrics of one are reset at arbitrary
\* moments and those of the other never.
C27_MetricsNeverDriveTransitions ==
    [][/\ lastEvent'.op = "resetMetrics" => circuitBreakers' = circuitBreakers
       /\ TwinsAgree(circuitBreakers')]_vars

\* Both breakers opened on the fifth consecutive failure, although the window
\* of the one that was reset holds fewer failures than the threshold.
C27_Witness ==
    /\ lastEvent.op = "recordFailure"
    /\ \A k \in TwinKeys : circuitBreakers[k].state = "OPEN"
    /\ metrics[ResetKey].failures < FailureThreshold
    /\ \E k \in TwinKeys : metrics[k].failures = FailureThreshold
    /\ metrics[ResetKey].lastResetTime > TimeStep

\* ------------------------------------------------------------------------
\* C28
\* ------------------------------------------------------------------------
\* The cursors of all services but the one called name are as before.
OtherCursorsKept(name) ==
    \A n \in (DOMAIN currentIndices) \cup (DOMAIN currentIndices') :
        n # name =>
            /\ n \in DOMAIN currentIndices /\ n \in DOMAIN currentIndices'
            /\ currentIndices'[n] = currentIndices[n]

\* C28: getNextInstance changes nothing of the load balancer but the
\* round-robin cursor of the service it is called for, and that only when
\* roundRobin chose; a leastConnections or random selection and a call that
\* finds no instance change nothing; the cursors change in no other step and
\* the connection counters change only in incrementConnections and
\* decrementConnections.
C28_SelectionOnlyAdvancesItsCursor ==
    [][/\ lastEvent'.op = "getNextInstance" =>
             /\ connectionCounts' = connectionCounts
             /\ OtherCursorsKept(lastEvent'.name)
             /\ currentIndices' # currentIndices => lastEvent'.detail.by = "roundRobin"
             /\ lastEvent'.detail.algorithm \in {"leastConnections", "random"} =>
                   currentIndices' = currentIndices
             /\ lastEvent'.result # "ok" => currentIndices' = currentIndices
       /\ currentIndices' # currentIndices => lastEvent'.op = "getNextInstance"
       /\ connectionCounts' # connectionCounts =>
             lastEvent'.op \in {"incrementConnections", "decrementConnections"}]_vars

\* C28, amended: getNextInstance changes nothing of the load balancer but
\* the round-robin cursor of the service it is called for, and that only
\* when roundRobin chose; a leastConnections or random selection and a call
\* that finds no instance change nothing; apart from that the cursors and
\* the connection counters change only in incrementConnections and
\* decrementConnections (the counters) and in resetStats, which removes
\* every cursor and every counter.
C28_SelectionOnlyAdvancesItsCursorOrReset ==
    [][/\ lastEvent'.op = "getNextInstance" =>
             /\ connectionCounts' = connectionCounts
             /\ OtherCursorsKept(lastEvent'.name)
             /\ currentIndices' # currentIndices => lastEvent'.detail.by = "roundRobin"
             /\ lastEvent'.detail.algorithm \in {"leastConnections", "random"} =>
                   currentIndices' = currentIndices
             /\ lastEvent'.result # "ok" => currentIndices' = currentIndices
       /\ currentIndices' # currentIndices =>
             lastEvent'.op \in {"getNextInstance", "resetStats"}
       /\ connectionCounts' # connectionCounts =>
             lastEvent'.op \in {"incrementConnections", "decrementConnections", "resetStats"}
       /\ lastEvent'.op = "resetStats" =>
             DOMAIN currentIndices' = {} /\ DOMAIN connectionCounts' = {}]_vars

\* leastConnections has just selected for the user service while a cursor
\* and a connection count of that service are stored.
C28_Witness ==
    /\ lastEvent.op = "getNextInstance" /\ lastEvent.name = services["user"].name
    /\ lastEvent.detail.by = "leastConnections"
    /\ services["user"].name \in DOMAIN currentIndices
    /\ currentIndices[services["user"].name] = 1
    /\ ConnectionCount(connectionCounts, <<services["user"].name, "http://u1">>) = 1

\* ------------------------------------------------------------------------
\* C29
\* ------------------------------------------------------------------------
\* The active-connection counter of instance i of the service under key k.
Connections(k, i) == ConnectionCount(connectionCounts, <<services[k].name, i>>)

\* C29: a leastConnections selection returns a valid instance whose
\* connection counter is minimal among the valid instances of the service,
\* and the first such instance of the list; no connection counter is ever
\* below 0.
C29_LeastConnectionsPicksFirstMinimum ==
    [][/\ \A key \in DOMAIN connectionCounts' : connectionCounts'[key] >= 0
       /\ \A k \in DOMAIN services :
             (/\ lastEvent'.op = "getNextInstance"
              /\ lastEvent'.name = services[k].name
              /\ lastEvent'.detail.by = "leastConnections") =>
                LET valid == ValidInstances(k)
                IN  \E p \in 1..Len(valid) :
                       /\ lastEvent'.detail.instance = valid[p]
                       /\ \A q \in 1..Len(valid) :
                             Connections(k, valid[p]) <= Connections(k, valid[q])
                       /\ \A q \in 1..(p - 1) :
                             Connections(k, valid[q]) > Connections(k, valid[p])]_vars

\* The first instance has a connection, the other two have none, and
\* leastConnections returned the second.
C29_Witness ==
    /\ lastEvent.op = "getNextInstance" /\ lastEvent.detail.by = "leastConnections"
    /\ lastEvent.name = services["user"].name
    /\ Len(ValidInstances("user")) = 3
    /\ Connections("user", "http://u1") = 1
    /\ Connections("user", "http://u2") = 0
    /\ Connections("user", "http://u3") = 0
    /\ lastEvent.detail.instance = "http://u2"

\* ------------------------------------------------------------------------
\* C30
\* ------------------------------------------------------------------------
\* The round-robin cursor of the service under key k (0 when none is stored).
CursorOf(k) ==
    IF services[k].name \in DOMAIN currentIndices THEN currentIndices[services[k].name] ELSE 0

\* C30: a weighted selection for a service whose configured weight is 0
\* returns the instance at the service's round-robin cursor and advances
\* the cursor.
C30_ZeroWeightFallsBackToRoundRobin ==
    [][\A k \in DOMAIN services :
          (/\ lastEvent'.op = "getNextInstance"
           /\ lastEvent'.name = services[k].name
           /\ lastEvent'.detail.algorithm = "weighted"
           /\ lastEvent'.result = "ok"
           /\ services[k].weight = 0) =>
             /\ lastEvent'.detail.instance = ValidInstances(k)[CursorOf(k) + 1]
             /\ services[k].name \in DOMAIN currentIndices'
             /\ currentIndices'[services[k].name] =
                   (CursorOf(k) + 1) % Len(ValidInstances(k))]_vars

\* ------------------------------------------------------------------------
\* C31
\* ------------------------------------------------------------------------
\* The properties of a thrown error that tell its kind, message text aside.
Structure(error) == [p \in (DOMAIN error) \ {"message"} |-> error[p]]

\* C31: a getServiceInstance call the breaker denies throws an error whose
\* structure, message text aside, differs from the one thrown for an
\* unknown service, and which carries the breaker's nextAttemptTime.
C31_CircuitOpenFailureIsStructured ==
    [][\A k \in DOMAIN circuitBreakers :
          (/\ lastEvent'.op = "getServiceInstance"
           /\ lastEvent'.name = k
           /\ lastEvent'.result = "CircuitOpen") =>
              LET error == lastEvent'.detail.error
              IN  /\ Structure(error) #
                        Structure(GetServiceInstanceError("ServiceNotFound", UnknownName))
                  /\ "nextAttemptTime" \in DOMAIN error
                  /\ error.nextAttemptTime = circuitBreakers'[k].nextAttemptTime]_vars

\* ------------------------------------------------------------------------
\* C32
\* ------------------------------------------------------------------------
\* C32: a call(fn) that begins on a HALF_OPEN breaker while another call is
\* still awaiting its operation is not admitted.
C32_HalfOpenAdmitsOneAtATime ==
    [][\A k \in DOMAIN circuitBreakers :
          (/\ lastEvent'.op = "execute"
           /\ lastEvent'.name = k
           /\ lastEvent'.result \in {"admitted", "CircuitOpen"}
           /\ circuitBreakers[k].state = "HALF_OPEN"
           /\ Len(inFlight[k]) >= 1) =>
              /\ lastEvent'.result = "CircuitOpen"
              /\ inFlight'[k] = inFlight[k]]_vars

\* ------------------------------------------------------------------------
\* C33
\* ------------------------------------------------------------------------
\* C33: the name stored in every Service record is the key it is registered
\* under, so the breaker found under service.name is the breaker of that
\* service.
C33_ServiceNameIsItsKey ==
    \A k \in DOMAIN services :
        /\ services[k].name = k
        /\ services[k].name \in DOMAIN circuitBreakers

\* ------------------------------------------------------------------------
\* C34
\* ------------------------------------------------------------------------
\* C34: a breaker that is CLOSED has counted fewer consecutive failures
\* than failureThreshold.
C34_ClosedIsBelowThreshold ==
    \A k \in DOMAIN circuitBreakers :
        circuitBreakers[k].state = "CLOSED" =>
            circuitBreakers[k].failureCount < FailureThreshold

\* The second trial success on a HALF_OPEN breaker has just closed it with
\* its failure counter at 0.
C34_Witness ==
    /\ IsSuccessEvent(lastEvent, "user")
    /\ lastEvent.detail.prev = "HALF_OPEN"
    /\ circuitBreakers["user"].state = "CLOSED"
    /\ circuitBreakers["user"].failureCount = 0
    /\ trialSuccesses["user"] = SuccessThreshold

\* ------------------------------------------------------------------------
\* C35
\* ------------------------------------------------------------------------
\* The step records a success on the breaker under key k: recordSuccess(),
\* markServiceHealthy or a registry probe that was answered ok.
RecordsSuccess(k) ==
    /\ lastEvent'.name = k
    /\ \/ lastEvent'.op \in {"recordSuccess", "markServiceHealthy"}
       \/ lastEvent'.op = "registryProbe" /\ lastEvent'.result = "healthy"

\* C35: a breaker that is OPEN leaves OPEN only by forceState (called
\* directly or by resetService) or by the admission check of
\* getServiceInstance made at or after nextAttemptTime, the end of the
\* recovery period, which moves it to HALF_OPEN; a step that records a
\* success leaves it OPEN; and getServiceInstance before nextAttemptTime
\* fails with CircuitOpen, whatever the status of the service.
C35_SuccessesDoNotLeaveOpen ==
    [][\A k \in DOMAIN circuitBreakers :
          circuitBreakers[k].state = "OPEN" =>
             /\ circuitBreakers'[k].state # "OPEN" =>
                   /\ lastEvent'.name = k
                   /\ \/ lastEvent'.op \in {"resetService", "forceState"}
                      \/ /\ lastEvent'.op = "getServiceInstance"
                         /\ lastEvent'.result = "ok"
                         /\ now >= circuitBreakers[k].nextAttemptTime
                         /\ circuitBreakers'[k].state = "HALF_OPEN"
             /\ RecordsSuccess(k) => circuitBreakers'[k].state = "OPEN"
             /\ (/\ lastEvent'.op = "getServiceInstance"
                 /\ lastEvent'.name = k
                 /\ now < circuitBreakers[k].nextAttemptTime) =>
                    lastEvent'.result = "CircuitOpen"]_vars

\* ------------------------------------------------------------------------
\* C36
\* ------------------------------------------------------------------------
\* C36: a breaker that is OPEN eventually leaves OPEN, when time advances
\* and admission checks keep being made.
C36_NoBreakerStaysOpenForever ==
    \A k \in ServiceKeys :
        (circuitBreakers[k].state = "OPEN") ~> (circuitBreakers[k].state # "OPEN")

\* ------------------------------------------------------------------------
\* C37
\* ------------------------------------------------------------------------
\* C37: a request() that fails with an error the failure filter counts
\* raises the consecutive failure count of the service's breaker by 1: when
\* its failure has run through the catch block of call() and the catch block
\* of request(), the two together have counted it once.
C37_FailedRequestCountsOnce ==
    [][\A k \in DOMAIN circuitBreakers :
          (/\ lastEvent'.op = "request"
           /\ lastEvent'.name = k
           /\ lastEvent'.result = "OperationError"
           /\ ShouldRecordFailure(lastEvent'.detail.error)) =>
              lastEvent'.detail.countedByCall
                 + (circuitBreakers'[k].failureCount - circuitBreakers[k].failureCount) = 1]_vars

\* ------------------------------------------------------------------------
\* C38
\* ------------------------------------------------------------------------
\* C38: a round-robin selection that succeeds returns one of the valid
\* instance URLs of the service it was asked for, whatever the instance
\* lists of the earlier selections for that service name were.
C38_RoundRobinReturnsValidInstance ==
    [][(/\ lastEvent'.op = "getNextInstance"
        /\ lastEvent'.result = "ok"
        /\ lastEvent'.detail.by = "roundRobin"
        /\ "instances" \in DOMAIN lastEvent'.detail) =>
           LET valid == FilterValid(lastEvent'.detail.instances)
           IN  \E p \in 1..Len(valid) : lastEvent'.detail.instance = valid[p]]_vars

\* ------------------------------------------------------------------------
\* C39
\* ------------------------------------------------------------------------
\* The step is the completion of a probe that was in flight.
ProbeCompletes ==
    lastEvent'.op \in {"probe", "registryProbe", "staleProbe", "staleCheckerProbe"}

\* C39: a probe that completes, also after stopHealthChecks() or destroy(),
\* ends as healthy or unhealthy without an error escaping, and adds no
\* entry to the registry; one that completes after destroy() leaves the
\* emptied registry and breaker map as they are; and a probe pass is
\* initiated only while the checker is running, by startHealthChecks() or
\* by its interval.
C39_ProbesAreHarmlessAfterTeardown ==
    [][/\ ProbeCompletes =>
             /\ lastEvent'.result \in {"healthy", "unhealthy"}
             /\ DOMAIN services' = DOMAIN services
             /\ DOMAIN circuitBreakers' = DOMAIN circuitBreakers
       /\ (ProbeCompletes /\ lastEvent'.op \in {"staleProbe", "staleCheckerProbe"}) =>
             /\ services' = services
             /\ circuitBreakers' = circuitBreakers
       /\ PassInitiated =>
             /\ isRunning'
             /\ isRunning \/ lastEvent'.op = "startHealthChecks"]_vars

\* The checker was started and stopped, the registry destroyed, and a probe
\* of the checker that was in flight has just completed.
C39_Witness ==
    /\ lastEvent.op = "staleCheckerProbe" /\ lastEvent.name = "user"
    /\ lastEvent.result = "unhealthy"
    /\ Created(HealthCheckerOwner) >= 1
    /\ ~isRunning /\ intervalId = NullTimer
    /\ DOMAIN services = {} /\ DOMAIN circuitBreakers = {}
    /\ activeTimers = {}

\* ------------------------------------------------------------------------
\* C40
\* ------------------------------------------------------------------------
\* C40: getServiceInstance for a registered service whose breaker admits
\* the call returns one of the service's instances, whatever the status and
\* the failure count of the Service record.
C40_AdmissionDependsOnlyOnBreaker ==
    [][\A k \in DOMAIN services :
          (/\ lastEvent'.op = "getServiceInstance"
           /\ lastEvent'.name = k
           /\ k \in DOMAIN circuitBreakers
           /\ IsRequestAllowed(circuitBreakers[k], now).allowed) =>
              /\ lastEvent'.result = "ok"
              /\ \E p \in 1..Len(services[k].instances) :
                    lastEvent'.detail.url = services[k].instances[p]]_vars

\* The service is marked unhealthy with more failures counted than the
\* breaker's threshold, the breaker is CLOSED, and getServiceInstance has
\* just returned its instance.
C40_Witness ==
    /\ lastEvent.op = "getServiceInstance" /\ lastEvent.name = "user"
    /\ lastEvent.result = "ok"
    /\ lastEvent.detail.url = services["user"].url
    /\ services["user"].status = "unhealthy"
    /\ services["user"].failureCount > FailureThreshold
    /\ circuitBreakers["user"].state = "CLOSED"

====
